---- MODULE Spec2Model ----
(***************************************************************************)
(* The four-tier context memory of HADES: the tiers ElysiumTier (Hot),     *)
(* AsphodelTier (Warm), TartarusTier (Archive), LetheTier (Cold) of        *)
(* hades/src/memory_management/memory_tier.py and the MemoryManager of     *)
(* hades/src/memory_management/manager.py that dispatches store, retrieve  *)
(* and evict over them.                                                    *)
(*                                                                         *)
(* Every call runs on the asyncio event loop.  An in-memory tier call has  *)
(* no suspension point while its lock is free, so it is one atomic step.   *)
(* A call that has to wait for a lock that is never released is recorded   *)
(* with the result "hang": the effects it had before waiting stay, the     *)
(* call never returns.  A Python exception leaving a call is "raise".      *)
(* The external store behind LetheTier either answers a call or fails it   *)
(* (dbOk); a failed call is caught by the tier.                            *)
(*                                                                         *)
(* Specifications: Spec, the manager over its four tiers; AllocSpec, the   *)
(* context analyzer of hades/src/core/context/analyzer.py; CompressSpec,   *)
(* the TokenCompressor and compressing TartarusTier of                     *)
(* olympus/hades/src/memory_management/memory_tier.py; SearchSpec, the     *)
(* ranking of hades/src/core/search/hybrid.py; SimilarSpec, the similarity *)
(* search of the olympus tiers.  In these four one behaviour is one call:  *)
(* the initial state holds the arguments, the step applies the function.   *)
(* ContextSpec is the manager called through store_with_context and        *)
(* get_memory_context.  TaskSpec and TaskFairSpec are the manager called   *)
(* by two coroutines at once, a call being one step up to each point where *)
(* it is suspended; ColdSpec is the LetheTier of olympus called that way.  *)
(* StatsSpec is the manager with a statistics update that can fail;        *)
(* PromoteSpec is the manager with a promoting retrieve taken in its two   *)
(* steps, the store into the target tier and the evict from the source.   *)
(***************************************************************************)
EXTENDS Integers, Sequences, FiniteSets, TLC

\* ---------------------------------------------------------------- bounds
MaxOps == 3          \* number of calls issued in one behaviour
MaxCapacity == 1     \* max_size of an ElysiumTier that admits anything
MaxWindow == 1       \* window_size the AsphodelTier is constructed with

\* ------------------------------------------------------- program constants
PromoteCount == 5    \* manager.py: metadata.access_count > 5

\* ------------------------------------------------------------ value domain
Keys == {"k1", "k2"}
NoValue == "<None>"                 \* Python None, what dict.get returns on a miss
Values == {"", "bb"}                \* "" is a falsy Python value
TierNames == {"elysium", "asphodel", "tartarus", "lethe"}
NoMeta == [none |-> TRUE]           \* metadata = None
Infinity == "inf"                   \* float('inf'), the size limit of Archive
\* the ContextMetadata a caller supplies: an older entry counted up to the
\* promotion threshold, a newer one counted past it
MetaInputs ==
    {[last_access |-> 1, access_count |-> PromoteCount],
     [last_access |-> 2, access_count |-> PromoteCount + 1]}

\* bool(value) as the walrus tests of MemoryManager.retrieve evaluate it
Truthy(v) == v # NoValue /\ v # ""

VARIABLES elysium, asphodel, tartarus, lethe, last, ops, tasks
vars == <<elysium, asphodel, tartarus, lethe, last, ops, tasks>>

\* ------------------------------------------------------------------ tiers
\* MemoryTier.__init__: empty maps, current_size 0, a free lock
MemoryTier(max_size) ==
    [data |-> [k \in Keys |-> NoValue],
     meta |-> [k \in Keys |-> NoMeta],
     lock |-> FALSE,
     max_size |-> max_size,
     current_size |-> 0]

\* AsphodelTier.__init__
NewAsphodel(max_size, window_size) ==
    [data |-> [k \in Keys |-> NoValue],
     meta |-> [k \in Keys |-> NoMeta],
     lock |-> FALSE,
     max_size |-> max_size,
     current_size |-> 0,
     window_size |-> window_size]

\* LetheTier.__init__: the tier keeps nothing itself, db is the external store
NewLethe == [db |-> [k \in Keys |-> NoValue]]

DataKeys(t) == {k \in Keys : t.data[k] # NoValue}
MetaKeys(t) == {k \in Keys : t.meta[k] # NoMeta}

\* self._data[key] = value; if metadata: self._metadata[key] = metadata
Put(t, key, value, metadata) ==
    [t EXCEPT !.data[key] = value,
              !.meta[key] = IF metadata # NoMeta THEN metadata ELSE @]

\* MemoryTier.get_metadata
get_metadata(t, key) == t.meta[key]

\* ElysiumTier.retrieve / AsphodelTier.retrieve / TartarusTier.retrieve
TierRetrieve(t, key) == t.data[key]

\* ElysiumTier.store
ElysiumStore(t, key, value, metadata) ==
    IF t.lock THEN [t |-> t, r |-> "hang"]
    ELSE IF t.current_size >= t.max_size THEN [t |-> t, r |-> "false"]
    ELSE [t |-> Put(t, key, value, metadata), r |-> "true"]

\* AsphodelTier.store without the window test (a bug the window claim excludes)
AsphodelStore_NoWindow(t, key, value, metadata) ==
    IF t.lock THEN [t |-> t, r |-> "hang"]
    ELSE [t |-> Put(t, key, value, metadata), r |-> "true"]

\* the key AsphodelTier.store passes to evict: min over _metadata by last_access
OldestKeys(t) ==
    {k \in MetaKeys(t) :
        \A j \in MetaKeys(t) : t.meta[k].last_access <= t.meta[j].last_access}

\* AsphodelTier.store.  At window capacity min() over an empty _metadata
\* raises ValueError (the lock is released on the way out); otherwise
\* self.evict is awaited while store still holds the non-reentrant
\* asyncio.Lock, so evict waits for it forever and store never resumes.
AsphodelStore(t, key, value, metadata) ==
    IF t.lock THEN [t |-> t, r |-> "hang"]
    ELSE IF Cardinality(DataKeys(t)) >= t.window_size
         THEN IF OldestKeys(t) = {}
              THEN [t |-> t, r |-> "raise"]
              ELSE [t |-> [t EXCEPT !.lock = TRUE], r |-> "hang"]
    ELSE [t |-> Put(t, key, value, metadata), r |-> "true"]

\* TartarusTier.store
TartarusStore(t, key, value, metadata) ==
    IF t.lock THEN [t |-> t, r |-> "hang"]
    ELSE [t |-> Put(t, key, value, metadata), r |-> "true"]

\* ElysiumTier.evict / AsphodelTier.evict / TartarusTier.evict
TierEvict(t, key) ==
    IF t.lock THEN [t |-> t, r |-> "hang"]
    ELSE IF t.data[key] # NoValue
         THEN [t |-> [t EXCEPT !.data[key] = NoValue, !.meta[key] = NoMeta],
               r |-> "true"]
    ELSE [t |-> t, r |-> "false"]

\* LetheTier.store answering True whatever the external store did
LetheStore_Unchecked(t, key, value, metadata, dbOk) ==
    IF dbOk THEN [t |-> [t EXCEPT !.db[key] = value], r |-> "true"]
    ELSE [t |-> t, r |-> "true"]

\* LetheTier.store: db.store raising is caught and answered with False
LetheStore(t, key, value, metadata, dbOk) ==
    IF dbOk THEN [t |-> [t EXCEPT !.db[key] = value], r |-> "true"]
    ELSE [t |-> t, r |-> "false"]

\* LetheTier.retrieve: db.retrieve raising is caught and answered with None
LetheRetrieve(t, key, dbOk) == IF dbOk THEN t.db[key] ELSE NoValue

\* LetheTier.evict: db.delete raising is caught and answered with False
LetheEvict(t, key, dbOk) ==
    IF dbOk /\ t.db[key] # NoValue
    THEN [t |-> [t EXCEPT !.db[key] = NoValue], r |-> "true"]
    ELSE [t |-> t, r |-> "false"]

\* --------------------------------------------------------------- manager
\* the four tiers a MemoryManager owns, as one value
Tiers == [elysium |-> elysium, asphodel |-> asphodel,
          tartarus |-> tartarus, lethe |-> lethe]

\* MemoryManager.store: dispatch on the tier name.  tr is what the tier's
\* store did; an exception is caught and answered with False, an unknown
\* tier name is answered with False.
MgrStore(st, key, value, metadata, tier, dbOk) ==
    IF tier = "elysium" THEN
        LET s == ElysiumStore(st.elysium, key, value, metadata)
        IN [st |-> [st EXCEPT !.elysium = s.t], r |-> s.r, tr |-> s.r]
    ELSE IF tier = "asphodel" THEN
        LET s == AsphodelStore(st.asphodel, key, value, metadata)
        IN [st |-> [st EXCEPT !.asphodel = s.t],
            r |-> IF s.r = "raise" THEN "false" ELSE s.r, tr |-> s.r]
    ELSE IF tier = "tartarus" THEN
        LET s == TartarusStore(st.tartarus, key, value, metadata)
        IN [st |-> [st EXCEPT !.tartarus = s.t], r |-> s.r, tr |-> s.r]
    ELSE IF tier = "lethe" THEN
        LET s == LetheStore(st.lethe, key, value, metadata, dbOk)
        IN [st |-> [st EXCEPT !.lethe = s.t], r |-> s.r, tr |-> s.r]
    ELSE [st |-> st, r |-> "false", tr |-> "none"]

\* what MemoryManager.retrieve hands back: result "ok" with (rvalue, rtier),
\* or "hang"; inner is the answer of the store it made on the way
Found(st, value, tier, inner) ==
    [st |-> st, result |-> "ok", rvalue |-> value, rtier |-> tier,
     inner |-> inner]
Hung(st, inner) ==
    [st |-> st, result |-> "hang", rvalue |-> NoValue, rtier |-> "none",
     inner |-> inner]

\* the asphodel hit counting the access as the tartarus hit does
HitAsphodel_Counting(st, key, value) ==
    LET metadata == get_metadata(st.asphodel, key) IN
    IF metadata # NoMeta
    THEN Found([st EXCEPT !.asphodel.meta[key].access_count = @ + 1],
               value, "asphodel", "none")
    ELSE Found(st, value, "asphodel", "none")

\* retrieve, hit in asphodel: promote to elysium when access_count > 5
HitAsphodel(st, key, value) ==
    LET metadata == get_metadata(st.asphodel, key) IN
    IF metadata # NoMeta /\ metadata.access_count > PromoteCount
    THEN LET s == MgrStore(st, key, value, metadata, "elysium", TRUE)
             e == TierEvict(s.st.asphodel, key)
         IN IF s.r = "hang" THEN Hung(s.st, s.r)
            ELSE IF e.r = "hang" THEN Hung(s.st, s.r)
            ELSE Found([s.st EXCEPT !.asphodel = e.t], value, "asphodel", s.r)
    ELSE Found(st, value, "asphodel", "none")

\* the tartarus hit promoting whether or not there is metadata
HitTartarus_Unconditional(st, key, value) ==
    LET metadata == get_metadata(st.tartarus, key)
        s == MgrStore(st, key, value, metadata, "asphodel", TRUE)
        e == TierEvict(s.st.tartarus, key)
    IN IF s.r = "hang" THEN Hung(s.st, s.r)
       ELSE IF e.r = "hang" THEN Hung(s.st, s.r)
       ELSE Found([s.st EXCEPT !.tartarus = e.t], value, "tartarus", s.r)

\* retrieve, hit in tartarus: with metadata, count the access in place,
\* store into asphodel, evict from tartarus
HitTartarus(st, key, value) ==
    LET metadata == get_metadata(st.tartarus, key) IN
    IF metadata # NoMeta
    THEN LET counted == [metadata EXCEPT !.access_count = @ + 1]
             st1 == [st EXCEPT !.tartarus.meta[key] = counted]
             s == MgrStore(st1, key, value, counted, "asphodel", TRUE)
             e == TierEvict(s.st.tartarus, key)
         IN IF s.r = "hang" THEN Hung(s.st, s.r)
            ELSE IF e.r = "hang" THEN Hung(s.st, s.r)
            ELSE Found([s.st EXCEPT !.tartarus = e.t], value, "tartarus", s.r)
    ELSE Found(st, value, "tartarus", "none")

\* the lethe hit emptying lethe after the promotion, as the other hits do
HitLethe_Evicting(st, key, value) ==
    LET s == MgrStore(st, key, value, NoMeta, "tartarus", TRUE)
        e == LetheEvict(s.st.lethe, key, TRUE)
    IN IF s.r = "hang" THEN Hung(s.st, s.r)
       ELSE Found([s.st EXCEPT !.lethe = e.t], value, "lethe", s.r)

\* retrieve, hit in lethe: store into tartarus without metadata
HitLethe(st, key, value) ==
    LET s == MgrStore(st, key, value, NoMeta, "tartarus", TRUE)
    IN IF s.r = "hang" THEN Hung(s.st, s.r)
       ELSE Found(s.st, value, "lethe", s.r)

\* retrieve that records a miss in Archive as an empty entry
MgrRetrieve_MissRecorded(st, key, dbOk) ==
    IF Truthy(TierRetrieve(st.elysium, key))
    THEN Found(st, TierRetrieve(st.elysium, key), "elysium", "none")
    ELSE IF Truthy(TierRetrieve(st.asphodel, key))
    THEN HitAsphodel(st, key, TierRetrieve(st.asphodel, key))
    ELSE IF Truthy(TierRetrieve(st.tartarus, key))
    THEN HitTartarus(st, key, TierRetrieve(st.tartarus, key))
    ELSE IF Truthy(LetheRetrieve(st.lethe, key, dbOk))
    THEN HitLethe(st, key, LetheRetrieve(st.lethe, key, dbOk))
    ELSE Found([st EXCEPT !.tartarus.data[key] = ""], NoValue, "none", "none")

\* retrieve taking the entry out of Hot as it answers from Hot
MgrRetrieve_HotConsuming(st, key, dbOk) ==
    IF Truthy(TierRetrieve(st.elysium, key))
    THEN Found([st EXCEPT !.elysium = TierEvict(st.elysium, key).t],
               TierRetrieve(st.elysium, key), "elysium", "none")
    ELSE IF Truthy(TierRetrieve(st.asphodel, key))
    THEN HitAsphodel(st, key, TierRetrieve(st.asphodel, key))
    ELSE IF Truthy(TierRetrieve(st.tartarus, key))
    THEN HitTartarus(st, key, TierRetrieve(st.tartarus, key))
    ELSE IF Truthy(LetheRetrieve(st.lethe, key, dbOk))
    THEN HitLethe(st, key, LetheRetrieve(st.lethe, key, dbOk))
    ELSE Found(st, NoValue, "none", "none")

\* MemoryManager.retrieve: the tiers in order, each tested with
\* "if value := await tier.retrieve(key)"
MgrRetrieve(st, key, dbOk) ==
    IF Truthy(TierRetrieve(st.elysium, key))
    THEN Found(st, TierRetrieve(st.elysium, key), "elysium", "none")
    ELSE IF Truthy(TierRetrieve(st.asphodel, key))
    THEN HitAsphodel(st, key, TierRetrieve(st.asphodel, key))
    ELSE IF Truthy(TierRetrieve(st.tartarus, key))
    THEN HitTartarus(st, key, TierRetrieve(st.tartarus, key))
    ELSE IF Truthy(LetheRetrieve(st.lethe, key, dbOk))
    THEN HitLethe(st, key, LetheRetrieve(st.lethe, key, dbOk))
    ELSE Found(st, NoValue, "none", "none")

\* success |= ... : Python's or over the four answers
AnyTrue(rs) == IF "true" \in rs THEN "true" ELSE "false"

\* evict written with a short-circuiting "or": stops at the first tier that
\* evicted the key
MgrEvict_ShortCircuit(st, key, dbOk) ==
    LET e1 == TierEvict(st.elysium, key)
        e2 == TierEvict(st.asphodel, key)
        e3 == TierEvict(st.tartarus, key)
        e4 == LetheEvict(st.lethe, key, dbOk)
    IN IF e1.r # "false" THEN [st |-> [st EXCEPT !.elysium = e1.t], r |-> e1.r]
       ELSE IF e2.r # "false"
       THEN [st |-> [st EXCEPT !.asphodel = e2.t], r |-> e2.r]
       ELSE IF e3.r # "false"
       THEN [st |-> [st EXCEPT !.tartarus = e3.t], r |-> e3.r]
       ELSE [st |-> [st EXCEPT !.lethe = e4.t], r |-> e4.r]

\* MemoryManager.evict: evict from the four tiers in turn
MgrEvict(st, key, dbOk) ==
    LET e1 == TierEvict(st.elysium, key)
        e2 == TierEvict(st.asphodel, key)
        e3 == TierEvict(st.tartarus, key)
        e4 == LetheEvict(st.lethe, key, dbOk)
    IN IF e1.r = "hang" THEN [st |-> st, r |-> "hang"]
       ELSE IF e2.r = "hang"
       THEN [st |-> [st EXCEPT !.elysium = e1.t], r |-> "hang"]
       ELSE IF e3.r = "hang"
       THEN [st |-> [st EXCEPT !.elysium = e1.t, !.asphodel = e2.t],
             r |-> "hang"]
       ELSE [st |-> [elysium |-> e1.t, asphodel |-> e2.t,
                     tartarus |-> e3.t, lethe |-> e4.t],
             r |-> AnyTrue({e1.r, e2.r, e3.r, e4.r})]

\* the record of the call a step made
Call(op, key, tier, value, metadata, dbOk, result, tr, rvalue, rtier, inner) ==
    [op |-> op, key |-> key, tier |-> tier, value |-> value,
     meta |-> metadata, dbOk |-> dbOk, result |-> result, tr |-> tr,
     rvalue |-> rvalue, rtier |-> rtier, inner |-> inner]

\* the coroutines that call the manager concurrently, and what is known of
\* the call each of them is in: pc is "idle" before its first call, "db"
\* while the call is suspended on the external store (stage: on which of
\* its calls), "waiting" while it is suspended on a lock that is held,
\* "done" when it has returned; holds are the tiers whose lock it has,
\* held what the tier held under the key when a Cold store wrote to it
Tasks == {"t1", "t2"}
IdleTask ==
    [pc |-> "idle", op |-> "none", key |-> "k1", value |-> NoValue,
     meta |-> NoMeta, tier |-> "none", seen |-> "none",
     promotes |-> FALSE, partial |-> "false",
     waits |-> "none", holds |-> {}, stage |-> "none", held |-> NoValue,
     result |-> "none",
     rvalue |-> NoValue, rtier |-> "none"]
NoTasks == [t \in Tasks |-> IdleTask]

\* the tiers after a step
TiersBecome(st) ==
    /\ elysium' = st.elysium
    /\ asphodel' = st.asphodel
    /\ tartarus' = st.tartarus
    /\ lethe' = st.lethe

\* a step of the one caller of Spec: no other coroutine is in a call
Commit(st) ==
    /\ TiersBecome(st)
    /\ ops' = ops + 1
    /\ UNCHANGED tasks

Init ==
    /\ \E m \in {0, MaxCapacity} : elysium = MemoryTier(m)
    /\ asphodel = NewAsphodel(10 * MaxCapacity, MaxWindow)
    /\ tartarus = MemoryTier(Infinity)
    /\ lethe = NewLethe
    /\ last = Call("init", "k1", "none", NoValue, NoMeta, TRUE,
                   "none", "none", NoValue, "none", "none")
    /\ ops = 0
    /\ tasks = NoTasks

\* a caller awaits MemoryManager.store(key, value, metadata, tier) with one
\* of the four tier names
Store ==
    /\ ops < MaxOps
    /\ \E key \in Keys, value \in Values, metadata \in MetaInputs \cup {NoMeta},
          tier \in TierNames, dbOk \in BOOLEAN :
        /\ (tier # "lethe") => dbOk
        /\ LET s == MgrStore(Tiers, key, value, metadata, tier, dbOk)
           IN /\ Commit(s.st)
              /\ last' = Call("store", key, tier, value, metadata, dbOk,
                              s.r, s.tr, NoValue, "none", "none")

\* a caller awaits MemoryManager.store with no tier name or an unknown one
StoreNoTier ==
    /\ ops < MaxOps
    /\ \E key \in Keys, value \in Values, metadata \in MetaInputs \cup {NoMeta} :
        LET s == MgrStore(Tiers, key, value, metadata, "none", TRUE)
        IN /\ Commit(s.st)
           /\ last' = Call("store", key, "none", value, metadata, TRUE,
                           s.r, s.tr, NoValue, "none", "none")

\* a caller awaits MemoryManager.retrieve(key)
Retrieve ==
    /\ ops < MaxOps
    /\ \E key \in Keys, dbOk \in BOOLEAN :
        LET s == MgrRetrieve(Tiers, key, dbOk)
        IN /\ Commit(s.st)
           /\ last' = Call("retrieve", key, "none", NoValue, NoMeta, dbOk,
                           s.result, "none", s.rvalue, s.rtier, s.inner)

\* a caller awaits MemoryManager.evict(key)
Evict ==
    /\ ops < MaxOps
    /\ \E key \in Keys, dbOk \in BOOLEAN :
        LET s == MgrEvict(Tiers, key, dbOk)
        IN /\ Commit(s.st)
           /\ last' = Call("evict", key, "none", NoValue, NoMeta, dbOk,
                           s.r, "none", NoValue, "none", "none")

Next == Store \/ StoreNoTier \/ Retrieve \/ Evict

Spec == Init /\ [][Next]_vars

\* ------------------------------------------------------------ the claims
\* the size of a value as the spec's admission rule counts it: its length
SizeOf(v) == IF v = "" THEN 0 ELSE 2

\* the step is a MemoryManager.store dispatched to the named tier
IsStoreInto(tier) == last'.op = "store" /\ last'.tier = tier
\* the step is a MemoryManager.retrieve / evict
IsRetrieve == last'.op = "retrieve"
IsEvict == last'.op = "evict"

\* C1: on the Hot tier current_size never exceeds max_size, and a store
\* attempted when current_size + size(value) > max_size returns false and
\* leaves the tier's entries and metadata as they were.
C1_HotAdmission ==
    /\ [](elysium.current_size <= elysium.max_size)
    /\ [][(IsStoreInto("elysium")
            /\ elysium.current_size + SizeOf(last'.value) > elysium.max_size)
          => (last'.tr = "false" /\ elysium' = elysium)]_vars

\* C2: the Warm tier never holds more than window_size items.
C2_WarmWindow == Cardinality(DataKeys(asphodel)) <= asphodel.window_size

\* C2 witness: a store reached the Warm tier while it held window_size items
C2_Witness ==
    /\ last.op = "store" /\ last.tier = "asphodel"
    /\ last.tr \in {"hang", "raise"}
    /\ Cardinality(DataKeys(asphodel)) = asphodel.window_size

\* C3: a Warm store issued when the tier holds window_size items returns
\* true, having removed exactly one item, a member with the minimum
\* last_access; afterwards the new key is held with the stored value and
\* every other member is held as before.
C3_WarmEvictsOldest ==
    [][(IsStoreInto("asphodel")
         /\ last'.key \notin DataKeys(asphodel)
         /\ Cardinality(DataKeys(asphodel)) = asphodel.window_size)
       => /\ last'.tr = "true"
          /\ \E victim \in OldestKeys(asphodel) :
               /\ DataKeys(asphodel') =
                    (DataKeys(asphodel) \ {victim}) \cup {last'.key}
               /\ asphodel'.data[last'.key] = last'.value
               /\ \A k \in Keys \ {victim, last'.key} :
                    /\ asphodel'.data[k] = asphodel.data[k]
                    /\ asphodel'.meta[k] = asphodel.meta[k]]_vars

\* Hot has room for the value, by the spec's admission rule and by the
\* test ElysiumTier.store makes
HotHasCapacity(v) ==
    /\ elysium.current_size + SizeOf(v) <= elysium.max_size
    /\ elysium.current_size < elysium.max_size

\* the key is held by Warm with this much counted access
WarmCountAbove(k) ==
    /\ asphodel.data[k] # NoValue
    /\ asphodel.meta[k] # NoMeta
    /\ asphodel.meta[k].access_count > PromoteCount
WarmCountAtMost(k) ==
    /\ asphodel.data[k] # NoValue
    /\ asphodel.meta[k] # NoMeta
    /\ asphodel.meta[k].access_count <= PromoteCount

\* C4: retrieve of a key Warm holds with access_count > 5, Hot having
\* capacity, returns the value and leaves the key in Hot with the same value
\* and metadata and absent from Warm; with access_count <= 5 the key stays
\* in Warm and is not placed in Hot.
C4_WarmPromotion ==
    [][\A k \in Keys :
        /\ (IsRetrieve /\ last'.key = k /\ WarmCountAbove(k)
              /\ HotHasCapacity(asphodel.data[k]))
           => /\ last'.result = "ok"
              /\ last'.rvalue = asphodel.data[k]
              /\ elysium'.data[k] = asphodel.data[k]
              /\ elysium'.meta[k] = asphodel.meta[k]
              /\ asphodel'.data[k] = NoValue
        /\ (IsRetrieve /\ last'.key = k /\ WarmCountAtMost(k))
           => /\ asphodel'.data[k] = asphodel.data[k]
              /\ elysium'.data[k] = elysium.data[k]]_vars

\* C5: when Hot rejects the store of a Warm-to-Hot promotion, the key is
\* still held by Warm, value and metadata, after retrieve returns.
C5_RejectedPromotionKeepsWarm ==
    [][\A k \in Keys :
        (IsRetrieve /\ last'.key = k /\ last'.result = "ok"
           /\ last'.rtier = "asphodel" /\ last'.inner = "false")
        => /\ asphodel'.data[k] = asphodel.data[k]
           /\ asphodel'.meta[k] = asphodel.meta[k]]_vars

\* the value a tier holds for a key, NoValue when it holds none
Held(st, tier, k) ==
    IF tier = "elysium" THEN st.elysium.data[k]
    ELSE IF tier = "asphodel" THEN st.asphodel.data[k]
    ELSE IF tier = "tartarus" THEN st.tartarus.data[k]
    ELSE IF tier = "lethe" THEN st.lethe.db[k]
    ELSE NoValue
Holders(st, k) == {t \in TierNames : Held(st, t, k) # NoValue}
TiersAfter == [elysium |-> elysium', asphodel |-> asphodel',
               tartarus |-> tartarus', lethe |-> lethe']

\* the metadata of an Archive entry after its access is counted
Counted(metadata) == [metadata EXCEPT !.access_count = @ + 1]

C7_ColdHitKeepsCold ==
    [][\A k \in Keys :
        (IsRetrieve /\ last'.key = k /\ last'.rtier = "lethe")
        => /\ last'.result = "ok"
           /\ last'.rvalue = lethe.db[k]
           /\ tartarus'.data[k] = lethe.db[k]
           /\ lethe' = lethe]_vars

\* C7 witness: a retrieve was answered from Cold
C7_Witness ==
    /\ last.op = "retrieve" /\ last.rtier = "lethe"
    /\ lethe.db[last.key] = last.rvalue
    /\ tartarus.data[last.key] = last.rvalue

\* the first tier, in the order Hot, Warm, Archive, Cold, that holds the key
FirstHolder(st, k) ==
    IF Held(st, "elysium", k) # NoValue THEN "elysium"
    ELSE IF Held(st, "asphodel", k) # NoValue THEN "asphodel"
    ELSE IF Held(st, "tartarus", k) # NoValue THEN "tartarus"
    ELSE IF Held(st, "lethe", k) # NoValue THEN "lethe"
    ELSE "none"

\* C8: retrieve returns the value and the name of the first tier, in the
\* order Hot, Warm, Archive, Cold, that holds the key (the external store
\* answering).
C8_FirstHolderReported ==
    [][\A k \in Keys :
        (IsRetrieve /\ last'.key = k /\ last'.result = "ok" /\ last'.dbOk)
        => /\ last'.rtier = FirstHolder(Tiers, k)
           /\ last'.rvalue = Held(Tiers, FirstHolder(Tiers, k), k)]_vars

\* C9: a store into a tier that returned true, immediately followed by
\* retrieve of the key, returns the stored value: from the tier itself, and
\* through the manager together with the tier's name (no other tier holding
\* the key, the external store answering).
C9_RoundTrip ==
    /\ []((last.op = "store" /\ last.result = "true")
            => Held(Tiers, last.tier, last.key) = last.value)
    /\ [][(last.op = "store" /\ last.result = "true"
             /\ Holders(Tiers, last.key) = {last.tier}
             /\ IsRetrieve /\ last'.key = last.key /\ last'.dbOk)
          => /\ last'.result = "ok"
             /\ last'.rvalue = last.value
             /\ last'.rtier = last.tier]_vars

\* an evict call that returned
Returned(c) == c.op = "evict" /\ c.result \in {"true", "false"}

Promoted(c) ==
    /\ c.op = "retrieve" /\ c.result = "ok"
    /\ c.rtier \in {"asphodel", "tartarus", "lethe"}
    /\ c.inner = "true"

\* C11: in every reachable state each key is held by at most one tier, and a
\* retrieve that promoted an entry leaves no copy of it in the tier it was
\* found in.
C11_SingleOwner ==
    /\ [](\A k \in Keys : Cardinality(Holders(Tiers, k)) <= 1)
    /\ [][Promoted(last')
          => Held(TiersAfter, last'.rtier, last'.key) = NoValue]_vars

C13_InvalidTierFailsLoudly ==
    [][(last'.op = "store" /\ last'.tier \notin TierNames)
       => /\ last'.result = "raise"
          /\ TiersAfter = Tiers]_vars

\* ------------------------------------------------------- context analyzer
\* core/context/analyzer.py.  Scores are floats in the code; the model
\* holds them in thousandths, which keeps every comparison the code makes
\* exact for the token counts used here (a ratio of counts below 100 that
\* exceeds 0.7 exceeds it by more than 0.001).
MaxContext == 4                       \* characters of a short context

TARTARUS_RELEVANCE_THRESHOLD == 200   \* config.py: 0.2
LETHE_PROMOTION_THRESHOLD == 500      \* config.py: 0.5
ComplexityHigh == 700                 \* analyzer.py: complexity > 0.7
AccessHigh == 5                       \* analyzer.py: access_count > 5
ManyTokens == 10                      \* analyzer.py: len(tokens) > 10

\* the two thresholds determine_allocation reads from settings: the
\* defaults, and environments that set them equal or the other way round
DefaultSettings ==
    [high |-> TARTARUS_RELEVANCE_THRESHOLD, promo |-> LETHE_PROMOTION_THRESHOLD]
SettingsInputs ==
    {DefaultSettings,
     [high |-> LETHE_PROMOTION_THRESHOLD, promo |-> LETHE_PROMOTION_THRESHOLD],
     [high |-> LETHE_PROMOTION_THRESHOLD, promo |-> TARTARUS_RELEVANCE_THRESHOLD]}

\* a context string is the sequence of its characters
Chars == {"a", "b", " "}
RECURSIVE StringsOf(_)
StringsOf(n) ==
    IF n = 0 THEN {<<>>}
    ELSE LET shorter == StringsOf(n - 1)
         IN shorter \cup {Append(w, c) : w \in {x \in shorter : Len(x) = n - 1},
                                         c \in Chars}

\* str.split(): the maximal runs of characters that are not whitespace
RECURSIVE SplitFrom(_, _, _)
SplitFrom(s, word, done) ==
    IF s = <<>> THEN (IF word = <<>> THEN done ELSE Append(done, word))
    ELSE IF Head(s) = " "
         THEN SplitFrom(Tail(s), <<>>,
                        IF word = <<>> THEN done ELSE Append(done, word))
    ELSE SplitFrom(Tail(s), Append(word, Head(s)), done)
Split(s) == SplitFrom(s, <<>>, <<>>)

\* " ".join(words)
RECURSIVE Join(_)
Join(words) ==
    IF words = <<>> THEN <<>>
    ELSE IF Len(words) = 1 THEN Head(words)
    ELSE Head(words) \o <<" ">> \o Join(Tail(words))

\* contexts of ten and of more than ten tokens
LongContexts ==
    {Join([i \in 1..10 |-> <<"a">>]),
     Join([i \in 1..11 |-> <<"a">>]),
     Join([i \in 1..11 |-> IF i < 10 THEN <<"a", "a">> ELSE <<"b">>]),
     Join([i \in 1..12 |-> IF i % 2 = 0 THEN <<"a">> ELSE <<"b">>])}
ContextInputs == StringsOf(MaxContext) \cup LongContexts

\* dict.get(key, default)
Get(d, key, default) == IF key \in DOMAIN d THEN d[key] ELSE default
EmptyDict == [x \in {} |-> 0]

\* models.ContextMetadata of the analyzer (last_access, a clock reading,
\* takes no part in any decision and is left out)
AnalyzerMetadata(tokens, semantics, relationships, access_count, relevance) ==
    [tokens |-> tokens, semantics |-> semantics,
     relationships |-> relationships,
     access_count |-> access_count, relevance_score |-> relevance]
\* ContextMetadata(): every field at its default
EmptyMetadata == AnalyzerMetadata(<<>>, EmptyDict, EmptyDict, 0, 0)

\* models.AnalysisResult
AnalysisResult(metadata, suggested_tier, priority, ttl) ==
    [metadata |-> metadata, suggested_tier |-> suggested_tier,
     priority |-> priority, ttl |-> ttl]

\* determine_allocation comparing with >= where the code compares with >
determine_allocation_Inclusive(metadata, settings) ==
    LET relevance == metadata.relevance_score
        complexity == Get(metadata.semantics, "complexity", 0)
    IN IF relevance >= settings.high
       THEN IF complexity >= ComplexityHigh \/ metadata.access_count >= AccessHigh
            THEN AnalysisResult(metadata, "elysium", "high", 7200)
            ELSE AnalysisResult(metadata, "asphodel", "medium", 3600)
       ELSE IF relevance >= settings.promo
       THEN AnalysisResult(metadata, "tartarus", "low", 1800)
       ELSE AnalysisResult(metadata, "lethe", "low", 300)

\* determine_allocation testing the promotion threshold before the
\* relevance threshold
determine_allocation_ArchiveFirst(metadata, settings) ==
    LET relevance == metadata.relevance_score
        complexity == Get(metadata.semantics, "complexity", 0)
    IN IF relevance > settings.promo
       THEN AnalysisResult(metadata, "tartarus", "low", 1800)
       ELSE IF relevance > settings.high
       THEN IF complexity > ComplexityHigh \/ metadata.access_count > AccessHigh
            THEN AnalysisResult(metadata, "elysium", "high", 7200)
            ELSE AnalysisResult(metadata, "asphodel", "medium", 3600)
       ELSE AnalysisResult(metadata, "lethe", "low", 300)

\* determine_allocation
determine_allocation(metadata, settings) ==
    LET relevance == metadata.relevance_score
        complexity == Get(metadata.semantics, "complexity", 0)
    IN IF relevance > settings.high
       THEN IF complexity > ComplexityHigh \/ metadata.access_count > AccessHigh
            THEN AnalysisResult(metadata, "elysium", "high", 7200)
            ELSE AnalysisResult(metadata, "asphodel", "medium", 3600)
       ELSE IF relevance > settings.promo
       THEN AnalysisResult(metadata, "tartarus", "low", 1800)
       ELSE AnalysisResult(metadata, "lethe", "low", 300)

\* tokenize_context: an exception is caught and answered with []
tokenize_context(context, fails) == IF fails THEN <<>> ELSE Split(context)

\* the elements of a list as a set
Range(f) == {f[i] : i \in DOMAIN f}

\* extract_semantics: an exception is caught and answered with {}; recency
\* is a clock reading, the same in every call here
extract_semantics(tokens, fails) ==
    IF fails THEN EmptyDict
    ELSE [relevance |-> IF Len(tokens) > ManyTokens THEN 1000 ELSE 500,
          complexity |-> IF tokens # <<>>
                         THEN (1000 * Cardinality(Range(tokens))) \div Len(tokens)
                         ELSE 0,
          recency |-> 1]

\* identify_relationships: an exception is caught and answered with {}
identify_relationships(tokens, fails) ==
    IF fails THEN EmptyDict
    ELSE [dependencies |-> <<>>, references |-> <<>>]

\* the safe default of analyze_context
SafeDefault == AnalysisResult(EmptyMetadata, "lethe", "low", 60)

\* analyze_context.  fails: an exception leaves a step of the body that
\* does not catch its own, and the outer handler answers.
analyze_context(context, settings, tokFails, semFails, relFails, fails) ==
    IF fails THEN SafeDefault
    ELSE IF context = <<>> THEN SafeDefault
    ELSE LET tokens == tokenize_context(context, tokFails)
             semantics == extract_semantics(tokens, semFails)
             relationships == identify_relationships(tokens, relFails)
             metadata == AnalyzerMetadata(tokens, semantics, relationships, 1,
                                          Get(semantics, "relevance", 0))
         IN determine_allocation(metadata, settings)

\* the ContextMetadata values determine_allocation is called with
RelevanceInputs == {0, 200, 201, 500, 501, 1000}
SemanticsInputs ==
    {EmptyDict} \cup {[complexity |-> c] : c \in {0, 700, 701, 1000}}
AllocationInputs ==
    {AnalyzerMetadata(<<>>, sem, EmptyDict, n, rel) :
        sem \in SemanticsInputs, n \in {0, 5, 6}, rel \in RelevanceInputs}

\* the tiers play no part in the analyzer
TiersIdle ==
    /\ elysium = MemoryTier(MaxCapacity)
    /\ asphodel = NewAsphodel(10 * MaxCapacity, MaxWindow)
    /\ tartarus = MemoryTier(Infinity)
    /\ lethe = NewLethe
    /\ ops = 0
    /\ tasks = NoTasks

\* one behaviour is one call: the initial state holds the arguments
AllocInit ==
    /\ TiersIdle
    /\ \/ \E metadata \in AllocationInputs, settings \in SettingsInputs :
            last = [op |-> "call", fn |-> "determine_allocation",
                    settings |-> settings, metadata |-> metadata]
       \/ \E context \in ContextInputs, settings \in SettingsInputs,
             tokFails \in BOOLEAN, semFails \in BOOLEAN, relFails \in BOOLEAN,
             fails \in BOOLEAN :
            last = [op |-> "call", fn |-> "analyze_context",
                    settings |-> settings, context |-> context,
                    tokFails |-> tokFails, semFails |-> semFails,
                    relFails |-> relFails, fails |-> fails]

\* a caller evaluates determine_allocation(metadata)
Determine ==
    /\ last.op = "call" /\ last.fn = "determine_allocation"
    /\ last' = [op |-> "determine_allocation", settings |-> last.settings,
                metadata |-> last.metadata,
                result |-> determine_allocation(last.metadata, last.settings)]
    /\ UNCHANGED <<elysium, asphodel, tartarus, lethe, ops, tasks>>

\* a caller awaits analyze_context(context)
Analyze ==
    /\ last.op = "call" /\ last.fn = "analyze_context"
    /\ last' = [op |-> "analyze_context", settings |-> last.settings,
                context |-> last.context,
                failed |-> last.tokFails \/ last.semFails \/ last.relFails
                             \/ last.fails,
                result |-> analyze_context(last.context, last.settings,
                                           last.tokFails, last.semFails,
                                           last.relFails, last.fails)]
    /\ UNCHANGED <<elysium, asphodel, tartarus, lethe, ops, tasks>>

AllocNext == Determine \/ Analyze

AllocSpec == AllocInit /\ [][AllocNext]_vars

\* the decision of an AnalysisResult
Decision(r) == <<r.suggested_tier, r.priority, r.ttl>>
IsDetermine == last'.op = "determine_allocation"
IsAnalyze == last'.op = "analyze_context"

\* C14: determine_allocation returns Hot/high/7200 when relevance_score >
\* RELEVANCE_HIGH and (complexity > 0.7 or access_count > 5), Warm/medium/3600
\* when relevance_score > RELEVANCE_HIGH otherwise, Archive/low/1800 when
\* relevance_score is at most RELEVANCE_HIGH and above PROMOTION_THRESHOLD,
\* Cold/low/300 in every other case; the result carries the input metadata
\* unchanged.
C14_AllocationTable ==
    [][IsDetermine =>
        LET m == last'.metadata
            high == last'.settings.high
            promo == last'.settings.promo
            complex == "complexity" \in DOMAIN m.semantics
                         /\ m.semantics["complexity"] * 10 > 7 * 1000
            busy == m.access_count > 5
            d == Decision(last'.result)
        IN /\ (m.relevance_score > high /\ (complex \/ busy))
                => d = <<"elysium", "high", 7200>>
           /\ (m.relevance_score > high /\ ~(complex \/ busy))
                => d = <<"asphodel", "medium", 3600>>
           /\ (m.relevance_score <= high /\ m.relevance_score > promo)
                => d = <<"tartarus", "low", 1800>>
           /\ (m.relevance_score <= high /\ m.relevance_score <= promo)
                => d = <<"lethe", "low", 300>>
           /\ last'.result.metadata = m]_vars

\* C14 witness: a call decided Hot on the access count alone, its relevance
\* just above the threshold
C14_Witness ==
    /\ last.op = "determine_allocation"
    /\ last.settings = DefaultSettings
    /\ last.metadata.relevance_score = 201
    /\ last.metadata.access_count = 6
    /\ last.metadata.semantics = EmptyDict
    /\ last.result.suggested_tier = "elysium"

\* C15: whenever RELEVANCE_HIGH <= PROMOTION_THRESHOLD, the defaults
\* included, no metadata makes the analyzer suggest Archive.
C15_ArchiveUnreachable ==
    [][((IsDetermine \/ IsAnalyze)
          /\ last'.settings.high <= last'.settings.promo)
       => last'.result.suggested_tier # "tartarus"]_vars

\* C15 witness: under the defaults a relevance between the two thresholds
\* was decided, and not as Archive
C15_Witness ==
    /\ last.op = "determine_allocation"
    /\ last.settings = DefaultSettings
    /\ last.metadata.relevance_score > last.settings.high
    /\ last.metadata.relevance_score <= last.settings.promo
    /\ last.result.suggested_tier \in {"elysium", "asphodel"}

\* C16: determine_allocation on empty metadata returns Cold/low/300;
\* analyze_context on an empty context or on any internal failure returns
\* Cold/low/60.
C16_SafeDefault ==
    [][/\ (IsDetermine /\ last'.metadata = EmptyMetadata)
            => Decision(last'.result) = <<"lethe", "low", 300>>
       /\ (IsAnalyze /\ (last'.context = <<>> \/ last'.failed))
            => Decision(last'.result) = <<"lethe", "low", 60>>]_vars

\* ------------------------------------------------------- token compressor
\* olympus/hades/src/memory_management/memory_tier.py: TokenCompressor and
\* the TartarusTier that compresses what it stores.  A token is a string, a
\* sequence of characters.
MaxTokens == 5                 \* tokens of a short token list
MaxRatio == 16                 \* TokenCompressor.__init__: max_ratio = 16
ArchiveRatio == 4              \* TartarusTier.store: compress(tokens, ratio=4)

Letters == <<"a", "b", "c", "d", "e", "f", "g", "h">>
\* the token list of n tokens a, b, ..., h, a, b, ...
Cycle(n) == [i \in 1..n |-> <<Letters[((i - 1) % 8) + 1]>>]

\* tokens.count(token)
TokenCount(tokens, token) ==
    Cardinality({i \in DOMAIN tokens : tokens[i] = token})

RECURSIVE TokenListsOf(_)
TokenListsOf(n) ==
    IF n = 0 THEN {<<>>}
    ELSE LET shorter == TokenListsOf(n - 1)
         IN shorter \cup {Append(w, t) : w \in {x \in shorter : Len(x) = n - 1},
                                         t \in {<<"a">>, <<"b">>}}

\* The lists compress is called with: short lists over two tokens, the
\* eight distinct tokens a..h, and lists longer than max_ratio.  No token
\* occurs more than three times: two scores that are equal in exact
\* arithmetic then come from the same position distance and the same count,
\* so the floats the code compares are equal exactly when the integers are.
TokenInputs ==
    {w \in TokenListsOf(MaxTokens) :
        \A i \in DOMAIN w : TokenCount(w, w[i]) <= 3}
    \cup {Cycle(8), Cycle(9), Cycle(17), Cycle(18)}
RatioInputs == {1, 2, 4, MaxRatio, MaxRatio + 1, MaxRatio + 4}

Min(a, b) == IF a <= b THEN a ELSE b

\* the importance of the token at position i (counted from 1), as the
\* integer 10 * len(tokens) * (pos_score * 0.6 + freq_score * 0.4)
TokenScore(tokens, i) ==
    6 * (Len(tokens) - Min(i - 1, Len(tokens) - i))
    + 4 * TokenCount(tokens, tokens[i])
TokenScores(tokens) == [i \in 1..Len(tokens) |-> TokenScore(tokens, i)]

\* sorted(scores, reverse=True)[k], k counted from 0
SortedDescAt(scores, k) ==
    CHOOSE v \in Range(scores) :
        /\ Cardinality({i \in DOMAIN scores : scores[i] > v}) <= k
        /\ k < Cardinality({i \in DOMAIN scores : scores[i] >= v})

\* the ratio compress works with
ClampedRatio(ratio) == IF ratio > MaxRatio THEN MaxRatio ELSE ratio

\* threshold = sorted(token_scores, reverse=True)[len(tokens) // ratio]
Threshold(tokens, ratio) ==
    SortedDescAt(TokenScores(tokens), Len(tokens) \div ClampedRatio(ratio))

\* the members of seq whose score is at least the threshold, in order
RECURSIVE KeepFrom(_, _, _)
KeepFrom(seq, scores, threshold) ==
    IF seq = <<>> THEN <<>>
    ELSE (IF Head(scores) >= threshold THEN <<Head(seq)>> ELSE <<>>)
         \o KeepFrom(Tail(seq), Tail(scores), threshold)

\* what compress hands back: the two lists, or an exception
Compressed(tokens, scores) ==
    [outcome |-> "ok", tokens |-> tokens, scores |-> scores]
CompressRaised == [outcome |-> "raise", tokens |-> <<>>, scores |-> <<>>]

\* compress without the clamp of the ratio
compress_NoClamp(tokens, ratio) ==
    LET n == Len(tokens) IN
    IF n <= ratio
    THEN Compressed(tokens, [i \in 1..n |-> 10 * n])
    ELSE IF n \div ratio >= n THEN CompressRaised
    ELSE LET scores == TokenScores(tokens)
             threshold == SortedDescAt(scores, n \div ratio)
         IN Compressed(KeepFrom(tokens, scores, threshold),
                       KeepFrom(scores, scores, threshold))

\* TokenCompressor.compress.  Score 1.0 is the integer 10 * len(tokens).
\* With ratio 1 the index len(tokens) is out of range: IndexError.
compress(tokens, ratio) ==
    LET n == Len(tokens)
        r == ClampedRatio(ratio)
    IN IF n <= r
       THEN Compressed(tokens, [i \in 1..n |-> 10 * n])
       ELSE IF n \div r >= n THEN CompressRaised
       ELSE LET scores == TokenScores(tokens)
                threshold == Threshold(tokens, ratio)
            IN Compressed(KeepFrom(tokens, scores, threshold),
                          KeepFrom(scores, scores, threshold))

\* a str value and a value of another type
Str(chars) == [str |-> chars]
IsStr(value) == "str" \in DOMAIN value
Objects == {[obj |-> "dict"], [obj |-> "list"]}

\* MemoryTier.__init__ of this variant; Absent is a key _data does not have
Absent == [absent |-> TRUE]
NewArchive ==
    [data |-> [k \in Keys |-> Absent],
     meta |-> [k \in Keys |-> NoMeta],
     lock |-> FALSE,
     max_size |-> Infinity,
     current_size |-> 0]

\* the ContextMetadata of this variant: the fields store reads and writes
ArchiveMetadata(tokens, compression_ratio) ==
    [tokens |-> tokens, last_access |-> 1, access_count |-> 1,
     compression_ratio |-> compression_ratio]

\* TartarusTier.store of this variant, compressing at ratio 2
TartarusStoreCompressing_Halving(t, key, value, metadata) ==
    IF IsStr(value)
    THEN LET c == compress(Split(value.str), 2)
             m == IF metadata # NoMeta
                  THEN [metadata EXCEPT !.compression_ratio = 2,
                                        !.tokens = c.tokens]
                  ELSE metadata
         IN [t |-> Put(t, key, Str(Join(c.tokens)), m), r |-> "true"]
    ELSE [t |-> Put(t, key, value, metadata), r |-> "true"]

\* TartarusTier.store of this variant: a str is split, compressed at
\* ratio 4 and joined again; the metadata object is updated in place
TartarusStoreCompressing(t, key, value, metadata) ==
    IF IsStr(value)
    THEN LET c == compress(Split(value.str), ArchiveRatio)
             m == IF metadata # NoMeta
                  THEN [metadata EXCEPT !.compression_ratio = ArchiveRatio,
                                        !.tokens = c.tokens]
                  ELSE metadata
         IN [t |-> Put(t, key, Str(Join(c.tokens)), m), r |-> "true"]
    ELSE [t |-> Put(t, key, value, metadata), r |-> "true"]

\* the values and metadata a store is called with
ArchiveValueInputs ==
    {Str(Join(w)) : w \in TokenInputs}
    \cup {Str(<<" ", "a", " ", " ", "b", " ">>)}
    \cup Objects
ArchiveMetaInputs ==
    {NoMeta, ArchiveMetadata(<<>>, "None"),
     ArchiveMetadata(<<<<"a">>, <<"b">>>>, "None")}

\* one behaviour is one call on a new compressor or a new tier
CompressInit ==
    /\ elysium = MemoryTier(MaxCapacity)
    /\ asphodel = NewAsphodel(10 * MaxCapacity, MaxWindow)
    /\ tartarus = NewArchive
    /\ lethe = NewLethe
    /\ ops = 0
    /\ tasks = NoTasks
    /\ \/ \E tokens \in TokenInputs, ratio \in RatioInputs :
            last = [op |-> "call", fn |-> "compress",
                    tokens |-> tokens, ratio |-> ratio]
       \/ \E key \in Keys, value \in ArchiveValueInputs,
             metadata \in ArchiveMetaInputs :
            last = [op |-> "call", fn |-> "store", key |-> key,
                    value |-> value, metadata |-> metadata]

\* a caller awaits TokenCompressor().compress(tokens, ratio)
Compress ==
    /\ last.op = "call" /\ last.fn = "compress"
    /\ last' = [op |-> "compress", tokens |-> last.tokens,
                ratio |-> last.ratio,
                result |-> compress(last.tokens, last.ratio)]
    /\ UNCHANGED <<elysium, asphodel, tartarus, lethe, ops, tasks>>

\* a caller awaits TartarusTier.store(key, value, metadata)
ArchiveStore ==
    /\ last.op = "call" /\ last.fn = "store"
    /\ LET s == TartarusStoreCompressing(tartarus, last.key, last.value,
                                         last.metadata)
       IN /\ tartarus' = s.t
          /\ last' = [op |-> "archive_store", key |-> last.key,
                      value |-> last.value, metadata |-> last.metadata,
                      result |-> s.r]
    /\ UNCHANGED <<elysium, asphodel, lethe, ops, tasks>>

CompressNext == Compress \/ ArchiveStore

CompressSpec == CompressInit /\ [][CompressNext]_vars

IsCompress == last'.op = "compress"
IsArchiveStore == last'.op = "archive_store"

\* C17: compress on n > ratio tokens yields a token list whose length is
\* within 1 of n / ratio (for the eight distinct tokens a..h at ratio 4: a
\* length from 1 to 3), and every returned score is at least the threshold.
C17_CompressedLength ==
    [][(IsCompress /\ Len(last'.tokens) > ClampedRatio(last'.ratio))
       => LET n == Len(last'.tokens)
              r == ClampedRatio(last'.ratio)
              kept == Len(last'.result.tokens)
          IN /\ last'.result.outcome = "ok"
             /\ kept * r - n <= r /\ n - kept * r <= r
             /\ (last'.tokens = Cycle(8) /\ r = 4) => kept \in 1..3
             /\ \A i \in DOMAIN last'.result.scores :
                  last'.result.scores[i] >= Threshold(last'.tokens, r)]_vars

\* C18: a ratio above max_ratio acts as max_ratio, and a list of at most
\* (clamped) ratio tokens is returned unchanged with score 1.0 for every
\* token.
C18_ClampAndPassThrough ==
    [][IsCompress =>
        LET n == Len(last'.tokens) IN
        /\ last'.ratio > 16
             => last'.result = compress(last'.tokens, 16)
        /\ (n <= last'.ratio /\ n <= 16)
             => /\ last'.result.outcome = "ok"
                /\ last'.result.tokens = last'.tokens
                /\ Len(last'.result.scores) = n
                /\ \A i \in 1..n : last'.result.scores[i] = 10 * n]_vars

\* C18 witness: a list longer than max_ratio, shorter than the ratio asked
\* for, was compressed
C18_Witness ==
    /\ last.op = "compress" /\ last.ratio > Len(last.tokens)
    /\ Len(last.tokens) > 16
    /\ last.result.outcome = "ok"
    /\ Len(last.result.tokens) < Len(last.tokens)

\* C19: an Archive store of a string persists the compressor's output at
\* ratio 4 on the value's tokens and sets the stored metadata's tokens to
\* the compressed tokens and its compression ratio to 4; a value that is
\* not a string is stored unchanged and its metadata is not altered.
C19_ArchiveCompresses ==
    [][IsArchiveStore =>
        LET k == last'.key
            c == compress(Split(last'.value.str), 4)
        IN /\ last'.result = "true"
           /\ IsStr(last'.value)
                => /\ tartarus'.data[k] = Str(Join(c.tokens))
                   /\ last'.metadata # NoMeta
                        => /\ tartarus'.meta[k].tokens = c.tokens
                           /\ tartarus'.meta[k].compression_ratio = 4
                           /\ tartarus'.meta[k].access_count
                                = last'.metadata.access_count
           /\ ~IsStr(last'.value)
                => /\ tartarus'.data[k] = last'.value
                   /\ last'.metadata # NoMeta
                        => tartarus'.meta[k] = last'.metadata]_vars

\* C19 witness: a string of more than four tokens was stored with metadata
\* and fewer tokens were kept
C19_Witness ==
    /\ last.op = "archive_store" /\ IsStr(last.value)
    /\ last.metadata # NoMeta
    /\ Len(Split(last.value.str)) > 4
    /\ Len(tartarus.meta[last.key].tokens) < Len(Split(last.value.str))
    /\ tartarus.meta[last.key].compression_ratio = 4
    /\ tartarus.data[last.key] = Str(Join(tartarus.meta[last.key].tokens))

\* ---------------------------------------------------------- hybrid search
\* core/search/hybrid.py.  A score is counted in units of 1/12000, which
\* holds every overlap ratio over a set of up to four members exactly;
\* context_boost and min_relevance are counted in thousandths, so a combined
\* score is counted in units of 1/12000000.
MaxResults == 2                \* candidates the vector store answers with
NoScore == -1                  \* a distance of None in a vector store answer
SemanticShare == 4800          \* hybrid.py: score += 0.4 * (semantic ...)
RelationshipShare == 4800      \* hybrid.py: score += 0.4 * (relationship ...)

\* a score given in thousandths, in units
Units(thousandths) == 12 * thousandths

\* calculate_context_score.  metadata.get("last_access", 0) being set leads
\* to time.time(), and the module never imports time: the NameError is
\* caught and the answer is 0.0, whatever had been added before.
calculate_context_score(metadata, semantics, memory_items) ==
    LET semantic_overlap == Cardinality(metadata.semantics \cap semantics)
        relationship_overlap ==
            Cardinality(metadata.related_to \cap memory_items)
        semantic == IF semantic_overlap # 0
                    THEN (SemanticShare * semantic_overlap)
                           \div Cardinality(semantics)
                    ELSE 0
        relationship == IF relationship_overlap # 0
                        THEN (RelationshipShare * relationship_overlap)
                               \div Cardinality(memory_items)
                        ELSE 0
    IN IF metadata.last_access # 0 THEN 0
       ELSE semantic + relationship

\* the tuple (id, combined_score, metadata, context_score)
Ranked(id, score, metadata, context_score) ==
    [id |-> id, score |-> score, metadata |-> metadata,
     context_score |-> context_score]

\* list.sort(key=score, reverse=True), which is stable: x goes behind every
\* member whose score is at least its own
RECURSIVE InsertDesc(_, _)
InsertDesc(x, sorted) ==
    IF sorted = <<>> THEN <<x>>
    ELSE IF Head(sorted).score >= x.score
         THEN <<Head(sorted)>> \o InsertDesc(x, Tail(sorted))
    ELSE <<x>> \o sorted
RECURSIVE SortDesc(_)
SortDesc(seq) ==
    IF seq = <<>> THEN <<>>
    ELSE InsertDesc(seq[Len(seq)], SortDesc(SubSeq(seq, 1, Len(seq) - 1)))

\* the combined score of one candidate
Combined(vector_score, context_score, context_boost) ==
    (1000 - context_boost) * vector_score + context_boost * context_score

\* rerank_results leaving the candidates in the order of the vector store
rerank_results_Unsorted(vector_results, semantics, memory_items, context_boost) ==
    IF \E i \in DOMAIN vector_results : vector_results[i].vector_score = NoScore
    THEN [i \in DOMAIN vector_results |->
            Ranked(vector_results[i].id, vector_results[i].vector_score,
                   vector_results[i].metadata, 0)]
    ELSE [i \in DOMAIN vector_results |->
            LET c == calculate_context_score(vector_results[i].metadata,
                                             semantics, memory_items)
            IN Ranked(vector_results[i].id,
                      Combined(vector_results[i].vector_score, c, context_boost),
                      vector_results[i].metadata, c)]

\* rerank_results.  The arithmetic on a score of None raises TypeError; the
\* handler answers with the candidates as the vector store gave them, their
\* vector score in place of the combined score and context score 0.0.
rerank_results(vector_results, semantics, memory_items, context_boost) ==
    IF \E i \in DOMAIN vector_results : vector_results[i].vector_score = NoScore
    THEN [i \in DOMAIN vector_results |->
            Ranked(vector_results[i].id, vector_results[i].vector_score,
                   vector_results[i].metadata, 0)]
    ELSE SortDesc([i \in DOMAIN vector_results |->
            LET c == calculate_context_score(vector_results[i].metadata,
                                             semantics, memory_items)
            IN Ranked(vector_results[i].id,
                      Combined(vector_results[i].vector_score, c, context_boost),
                      vector_results[i].metadata, c)])

\* get_memory_context: every key among the references of the analysis is
\* looked up through the manager; what retrieve returns is a tuple, which is
\* truthy whatever it holds, so every key is kept.  A retrieve that never
\* returns leaves the lookup waiting ("hang").
RECURSIVE MemoryContextFrom(_, _, _)
MemoryContextFrom(st, references, items) ==
    IF references = <<>> THEN [st |-> st, items |-> items, result |-> "ok"]
    ELSE LET s == MgrRetrieve(st, Head(references), TRUE)
         IN IF s.result = "hang"
            THEN [st |-> s.st, items |-> items, result |-> "hang"]
            ELSE MemoryContextFrom(s.st, Tail(references),
                                   items \cup {Head(references)})
get_memory_context(st, context) ==
    MemoryContextFrom(st, Get(context.metadata.relationships, "references", <<>>),
                      {})

\* build_metadata_filter: the fields the filter constrains
build_metadata_filter(context, memory_items) ==
    {"relevance_score"}
    \cup (IF DOMAIN context.metadata.semantics # {}
          THEN {"semantic_type"} ELSE {})
    \cup (IF DOMAIN context.metadata.relationships # {}
          THEN {"related_to"} ELSE {})

\* seq[:k] for k >= 0
Take(seq, k) == SubSeq(seq, 1, Min(k, Len(seq)))

\* the filter and cut at the end of hybrid_search.  Comparing a score of
\* None with min_relevance raises TypeError, which hybrid_search answers
\* with [].
FinalResults(results, top_k, min_relevance) ==
    IF \E i \in DOMAIN results : results[i].score = NoScore THEN <<>>
    ELSE Take(SelectSeq(results,
                        LAMBDA r : r.score >= 1000 * Units(min_relevance)),
              top_k)

\* the step of hybrid_search in which an exception is raised, if any.  Each
\* of analyze_context, get_memory_context, build_metadata_filter and
\* VectorStore.search has a handler of its own.
FaultInputs == {"none", "analysis", "memory", "filter", "search"}

\* what hybrid_search goes on with after each step
SearchContext(query, fault) ==
    analyze_context(query, DefaultSettings, FALSE, FALSE, FALSE,
                    fault = "analysis")
SearchMemory(st, context_analysis, fault) ==
    IF fault = "memory" THEN [st |-> st, items |-> {}, result |-> "ok"]
    ELSE get_memory_context(st, context_analysis)
SearchFilter(context_analysis, memory_items, fault) ==
    IF fault = "filter" THEN {}
    ELSE build_metadata_filter(context_analysis, memory_items)
SearchAnswer(vector_results, fault) ==
    IF fault = "search" THEN <<>> ELSE vector_results

\* hybrid_search answering [] as soon as any step has failed
hybrid_search_FailClosed(st, query, vector, vector_results, top_k, min_relevance, context_boost, fault) ==
    LET context_analysis == SearchContext(query, fault)
        memory == SearchMemory(st, context_analysis, fault)
        results == rerank_results(SearchAnswer(vector_results, fault),
                                  DOMAIN context_analysis.metadata.semantics,
                                  memory.items, context_boost)
    IN IF ~vector
       THEN [st |-> st, queried |-> FALSE, filter |-> {}, results |-> <<>>]
       ELSE IF fault # "none"
       THEN [st |-> memory.st, queried |-> fault = "search",
             filter |-> {}, results |-> <<>>]
       ELSE [st |-> memory.st, queried |-> TRUE,
             filter |-> SearchFilter(context_analysis, memory.items, fault),
             results |-> FinalResults(results, top_k, min_relevance)]

\* hybrid_search.  vector is what get_query_vector answered (FALSE: None),
\* vector_results what vector_store.search answers when it does not fail;
\* queried tells whether vector_store.search was called.
hybrid_search(st, query, vector, vector_results, top_k, min_relevance, context_boost, fault) ==
    LET context_analysis == SearchContext(query, fault)
        memory == SearchMemory(st, context_analysis, fault)
        results == rerank_results(SearchAnswer(vector_results, fault),
                                  DOMAIN context_analysis.metadata.semantics,
                                  memory.items, context_boost)
    IN IF ~vector
       THEN [st |-> st, queried |-> FALSE, filter |-> {}, results |-> <<>>]
       ELSE [st |-> memory.st, queried |-> TRUE,
             filter |-> SearchFilter(context_analysis, memory.items, fault),
             results |-> FinalResults(results, top_k, min_relevance)]

\* what the vector store can answer: a distance and the stored metadata
VectorScoreInputs == {Units(900), Units(500), NoScore}
SemanticsOfQuery == {"relevance", "complexity", "recency"}
SemanticsOfFour == {"relevance", "complexity", "recency", "topic"}
CandidateMetaInputs ==
    {[semantics |-> {}, related_to |-> {}, last_access |-> 0],
     [semantics |-> {"relevance"}, related_to |-> {}, last_access |-> 0],
     [semantics |-> SemanticsOfFour, related_to |-> {"m1"}, last_access |-> 0],
     [semantics |-> SemanticsOfFour, related_to |-> {"m1"}, last_access |-> 1]}
RECURSIVE AnswersOf(_)
AnswersOf(n) ==
    IF n = 0 THEN {<<>>}
    ELSE LET shorter == AnswersOf(n - 1)
         IN shorter \cup
            {Append(w, [id |-> n, vector_score |-> v, metadata |-> m]) :
                w \in {x \in shorter : Len(x) = n - 1},
                v \in VectorScoreInputs, m \in CandidateMetaInputs}
VectorResultInputs == AnswersOf(MaxResults)
BoostInputs == {0, 500, 1000}
MinRelevanceInputs == {0, 500}
QueryInputs == {<<>>, <<"a", " ", "b">>}

\* one behaviour is one call
SearchInit ==
    /\ TiersIdle
    /\ \/ \E query \in QueryInputs, vector \in BOOLEAN,
             vector_results \in VectorResultInputs, top_k \in 0..MaxResults,
             min_relevance \in MinRelevanceInputs,
             context_boost \in BoostInputs, fault \in FaultInputs :
            last = [op |-> "call", fn |-> "hybrid_search", query |-> query,
                    vector |-> vector, vector_results |-> vector_results,
                    top_k |-> top_k, min_relevance |-> min_relevance,
                    context_boost |-> context_boost, fault |-> fault]
       \/ \E vector_results \in VectorResultInputs,
             semantics \in {{}, SemanticsOfQuery, SemanticsOfFour},
             memory_items \in {{}, {"m1"}}, context_boost \in BoostInputs :
            last = [op |-> "call", fn |-> "rerank_results",
                    vector_results |-> vector_results,
                    semantics |-> semantics, memory_items |-> memory_items,
                    context_boost |-> context_boost]

\* a caller awaits hybrid_search(query, vector_store, memory_manager, ...)
HybridSearch ==
    /\ last.op = "call" /\ last.fn = "hybrid_search"
    /\ \E s \in {hybrid_search(Tiers, last.query, last.vector,
                                last.vector_results, last.top_k,
                                last.min_relevance, last.context_boost,
                                last.fault)} :
          /\ elysium' = s.st.elysium
          /\ asphodel' = s.st.asphodel
          /\ tartarus' = s.st.tartarus
          /\ lethe' = s.st.lethe
          /\ last' = [op |-> "hybrid_search", query |-> last.query,
                      vector |-> last.vector,
                      vector_results |-> last.vector_results,
                      top_k |-> last.top_k,
                      min_relevance |-> last.min_relevance,
                      context_boost |-> last.context_boost,
                      fault |-> last.fault, queried |-> s.queried,
                      filter |-> s.filter, results |-> s.results]
    /\ UNCHANGED <<ops, tasks>>

\* a caller evaluates rerank_results(vector_results, context, memory_items,
\* context_boost)
Rerank ==
    /\ last.op = "call" /\ last.fn = "rerank_results"
    /\ last' = [op |-> "rerank_results",
                vector_results |-> last.vector_results,
                semantics |-> last.semantics,
                memory_items |-> last.memory_items,
                context_boost |-> last.context_boost,
                results |-> rerank_results(last.vector_results, last.semantics,
                                           last.memory_items,
                                           last.context_boost)]
    /\ UNCHANGED <<elysium, asphodel, tartarus, lethe, ops, tasks>>

SearchNext == HybridSearch \/ Rerank

SearchSpec == SearchInit /\ [][SearchNext]_vars

\* the scores and context scores of a result list, in order
ScoresOf(results) == [i \in DOMAIN results |-> results[i].score]
ContextScoresOf(results) == [i \in DOMAIN results |-> results[i].context_score]
IdsOf(results) == [i \in DOMAIN results |-> results[i].id]

\* C20: every entry hybrid_search returns carries the combined score
\* (1 - context_boost) * vector_score + context_boost * context_score of its
\* candidate; the list is in non-increasing order of that score, holds only
\* scores >= min_relevance and at most top_k entries; and for vector scores
\* [0.9, 0.5], context scores [0.1, 0.8] and context_boost 0.5 the combined
\* scores are 0.5 and 0.65 and the second candidate is ranked first.
C20_RankedByCombinedScore ==
    /\ [][last'.op = "hybrid_search" =>
            LET R == last'.results
                b == last'.context_boost
            IN /\ \A i \in DOMAIN R :
                    /\ R[i].score
                         = 1000 * last'.vector_results[R[i].id].vector_score
                           - b * last'.vector_results[R[i].id].vector_score
                           + b * R[i].context_score
                    /\ R[i].score >= 12000 * last'.min_relevance
               /\ \A i, j \in DOMAIN R : i < j => R[i].score >= R[j].score
               /\ Len(R) <= last'.top_k]_vars
    /\ [][(last'.op = "rerank_results"
             /\ Len(last'.vector_results) = 2
             /\ last'.vector_results[1].vector_score = 10800
             /\ last'.vector_results[2].vector_score = 6000
             /\ last'.context_boost = 500
             /\ \E i, j \in 1..2 :
                  /\ last'.results[i].id = 1
                  /\ last'.results[i].context_score = 1200
                  /\ last'.results[j].id = 2
                  /\ last'.results[j].context_score = 9600)
          => /\ IdsOf(last'.results) = <<2, 1>>
             /\ ScoresOf(last'.results) = <<7800000, 6000000>>]_vars

\* C20 witness: hybrid_search returned both candidates, the one the vector
\* store ranked second placed first on its context score
C20_Witness ==
    /\ last.op = "hybrid_search" /\ Len(last.results) = 2
    /\ IdsOf(last.results) = <<2, 1>>
    /\ last.vector_results[1].vector_score > last.vector_results[2].vector_score
    /\ last.results[1].score > last.results[2].score
    /\ last.results[1].context_score > 0

OverlapTerm(share, candidate_side, query_side) ==
    IF query_side = {} THEN 0
    ELSE (share * Cardinality(candidate_side \cap query_side))
           \div Cardinality(query_side)

\* C22: the context score of every candidate is 0.4 * semantic overlap ratio
\* + 0.4 * relationship overlap ratio + 0.2 * recency factor: the semantic
\* and relationship terms contribute for every candidate, and a recency term
\* in (0, 0.2] is added for the candidates that carry a last_access timestamp.
C22_ContextScore ==
    [][(last'.op = "rerank_results"
          /\ \A i \in DOMAIN last'.vector_results :
               last'.vector_results[i].vector_score # NoScore)
       => \A i \in DOMAIN last'.results :
            LET r == last'.results[i]
                overlaps ==
                    OverlapTerm(SemanticShare, r.metadata.semantics,
                                last'.semantics)
                    + OverlapTerm(RelationshipShare, r.metadata.related_to,
                                  last'.memory_items)
            IN IF r.metadata.last_access = 0
               THEN r.context_score = overlaps
               ELSE /\ r.context_score > overlaps
                    /\ r.context_score <= overlaps + 2400]_vars

StoreContexts == {<<>>, <<"a", " ", "a">>, <<"a", " ", "b">>}

\* the ContextMetadata analyze_context built, as a tier keeps it: now is
\* the reading of the clock at analyzer.py:116, and ContextMetadata() of the
\* safe default has last_access 0.0
StoredMetadata(metadata, now) ==
    [f \in DOMAIN metadata \cup {"last_access"} |->
        IF f = "last_access" THEN now ELSE metadata[f]]

\* MemoryManager.store_with_context: r is the success returned with the
\* analysis, or "hang" when the store never returns.  analyze_context and
\* MemoryManager.store both catch every exception of their own, so the
\* handler answering (False, None) is never entered.
store_with_context(st, key, value, context, dbOk, now) ==
    LET analysis ==
            analyze_context(context, DefaultSettings, FALSE, FALSE, FALSE, FALSE)
        metadata ==
            StoredMetadata(analysis.metadata,
                           IF context = <<>> THEN 0 ELSE now)
        s == MgrStore(st, key, value, metadata, analysis.suggested_tier, dbOk)
    IN [st |-> s.st, r |-> s.r, tr |-> s.tr, analysis |-> analysis,
        metadata |-> metadata]

\* a caller awaits MemoryManager.store_with_context(key, value, context)
StoreWithContext ==
    /\ ops < MaxOps
    /\ \E key \in Keys, value \in Values, context \in StoreContexts,
          dbOk \in BOOLEAN :
        LET s == store_with_context(Tiers, key, value, context, dbOk, ops + 1)
        IN /\ Commit(s.st)
           /\ last' = [op |-> "store_with_context", key |-> key,
                       value |-> value, context |-> context, dbOk |-> dbOk,
                       result |-> s.r, tr |-> s.tr, analysis |-> s.analysis,
                       meta |-> s.metadata]

\* the references of an analysis handed to get_memory_context
ReferenceInputs == {<<>>, <<"k1">>, <<"k2">>, <<"k1", "k2">>}

\* an AnalysisResult whose relationships name the references
ReferringAnalysis(references) ==
    AnalysisResult(AnalyzerMetadata(<<>>, EmptyDict,
                                    [references |-> references], 0, 0),
                   "lethe", "low", 60)

\* a caller awaits get_memory_context(memory_manager, context)
MemoryContext ==
    /\ ops < MaxOps
    /\ \E references \in ReferenceInputs :
        LET s == get_memory_context(Tiers, ReferringAnalysis(references))
        IN /\ Commit(s.st)
           /\ last' = [op |-> "get_memory_context",
                       references |-> references, result |-> s.result,
                       items |-> s.items]

ContextNext == StoreWithContext \/ Retrieve \/ Evict \/ MemoryContext

ContextSpec == Init /\ [][ContextNext]_vars

\* C27: store_with_context returns (success, analysis) where the analysis
\* is the one of the context and success is that of the store of the
\* suggested tier; the entry is stored in that tier and no other tier
\* changes.
C27_StoreInSuggestedTier ==
    [][last'.op = "store_with_context" =>
         LET tier == last'.analysis.suggested_tier
         IN /\ last'.result \in {"true", "false"}
            /\ last'.result = "true" <=> last'.tr = "true"
            /\ tier = (IF last'.context = <<>> THEN "lethe"
                       ELSE IF Split(last'.context) = <<<<"a">>, <<"a">>>>
                       THEN "asphodel" ELSE "elysium")
            /\ \A t \in TierNames \ {tier} : TiersAfter[t] = Tiers[t]
            /\ last'.result = "true"
                 => Held(TiersAfter, tier, last'.key) = last'.value
            /\ last'.result = "false" => TiersAfter = Tiers]_vars

\* C30: the memory-context set get_memory_context builds holds only keys
\* that the analysis references and that some tier holds at the time of the
\* lookup; a referenced key that no tier holds is not in the set.
C30_ContextHoldsResidentKeys ==
    [][(last'.op = "get_memory_context" /\ last'.result = "ok")
       => \A k \in last'.items :
            /\ k \in Range(last'.references)
            /\ Holders(Tiers, k) # {}]_vars

DefaultMaxResults == 5         \* find_similar(..., max_results: int = 5)
AsphodelThreshold == 700       \* AsphodelTier.find_similar(threshold = 0.7)
TartarusThreshold == 600       \* TartarusTier.find_similar(threshold = 0.6)

\* vector_embedding: a list of floats, or None
Vec(v) == [vec |-> v]
NoEmbedding == [none |-> TRUE]

VectorInputs ==
    {<<1, 0>>, <<4, 3>>, <<3, 4>>, <<0, 0>>, <<-1, 0>>, <<1>>}
EmbeddingInputs == {Vec(v) : v \in VectorInputs \cup {<<>>}} \cup {NoEmbedding}

\* sum(a * b for a, b in zip(v1, v2)): zip stops at the shorter vector
RECURSIVE Dot(_, _)
Dot(v1, v2) ==
    IF v1 = <<>> \/ v2 = <<>> THEN 0
    ELSE Head(v1) * Head(v2) + Dot(Tail(v1), Tail(v2))

\* sum(a * a for a in v) ** 0.5, for the vectors whose norm is whole
Norm(v) == CHOOSE n \in 0..5 : n * n = Dot(v, v)

\* SimilaritySearch.cosine_similarity
cosine_similarity(v1, v2) ==
    IF Norm(v1) * Norm(v2) > 0
    THEN (1000 * Dot(v1, v2)) \div (Norm(v1) * Norm(v2))
    ELSE 0

\* "if meta.vector_embedding": None and [] are skipped
HasEmbedding(meta) ==
    meta.vector_embedding # NoEmbedding /\ meta.vector_embedding.vec # <<>>

\* the (key, sim) pairs of the scan over metadata.items(), in its order
RECURSIVE Similarities(_, _, _)
Similarities(query_embedding, metadata, threshold) ==
    IF metadata = <<>> THEN <<>>
    ELSE LET meta == Head(metadata)
             rest == Similarities(query_embedding, Tail(metadata), threshold)
         IN IF HasEmbedding(meta)
               /\ cosine_similarity(query_embedding, meta.vector_embedding.vec)
                    >= threshold
            THEN <<[key |-> meta.key,
                    score |-> cosine_similarity(query_embedding,
                                                meta.vector_embedding.vec)]>>
                 \o rest
            ELSE rest

\* SimilaritySearch.find_similar without the sort
find_similar_Unsorted(query_embedding, metadata, threshold, max_results) ==
    Take(Similarities(query_embedding, metadata, threshold), max_results)

\* SimilaritySearch.find_similar; metadata is the dict in insertion order
\* (the items argument is not read)
find_similar(query_embedding, metadata, threshold, max_results) ==
    Take(SortDesc(Similarities(query_embedding, metadata, threshold)),
         max_results)

\* AsphodelTier.find_similar / TartarusTier.find_similar: the keys paired
\* with self._data[key]
TierFindSimilar(t, query_embedding, threshold) ==
    LET similar_keys == find_similar(query_embedding, t.meta, threshold,
                                     DefaultMaxResults)
    IN [i \in DOMAIN similar_keys |->
          [key |-> similar_keys[i].key, value |-> t.data[similar_keys[i].key]]]

\* the _metadata dicts a tier can hold, in insertion order
MetadataInputs ==
    {<<>>}
    \cup {<<[key |-> k, vector_embedding |-> e]>> :
            k \in Keys, e \in EmbeddingInputs}
    \cup UNION {{<<[key |-> k, vector_embedding |-> e],
                    [key |-> j, vector_embedding |-> f]>> :
                    j \in Keys \ {k},
                    e \in EmbeddingInputs, f \in EmbeddingInputs} :
                 k \in Keys}

\* the maps of a tier as store and evict leave them: every key of
\* _metadata is a key of _data
SimilarTiers ==
    {t \in [data : [Keys -> Values \cup {NoValue}], meta : MetadataInputs] :
        \A i \in DOMAIN t.meta : t.data[t.meta[i].key] # NoValue}

QueryVectorInputs == {<<1, 0>>, <<3, 4>>, <<0, 0>>}
ThresholdInputs == {TartarusThreshold, AsphodelThreshold, 1000}
MaxResultsInputs == {0, 1, DefaultMaxResults}

\* one behaviour is one call; asphodel holds the maps of the tier asked
SimilarInit ==
    /\ elysium = MemoryTier(MaxCapacity)
    /\ tartarus = MemoryTier(Infinity)
    /\ lethe = NewLethe
    /\ ops = 0
    /\ tasks = NoTasks
    /\ \/ /\ asphodel = [data |-> [k \in Keys |-> NoValue], meta |-> <<>>]
          /\ \E query_embedding \in QueryVectorInputs,
                metadata \in MetadataInputs, threshold \in ThresholdInputs,
                max_results \in MaxResultsInputs :
               last = [op |-> "call", fn |-> "find_similar",
                       query_embedding |-> query_embedding,
                       metadata |-> metadata, threshold |-> threshold,
                       max_results |-> max_results]
       \/ /\ asphodel \in SimilarTiers
          /\ \E query_embedding \in QueryVectorInputs,
                threshold \in ThresholdInputs :
               last = [op |-> "call", fn |-> "tier_find_similar",
                       query_embedding |-> query_embedding,
                       threshold |-> threshold]

\* a caller awaits SimilaritySearch.find_similar(query_embedding, items,
\* metadata, threshold, max_results)
FindSimilar ==
    /\ last.op = "call" /\ last.fn = "find_similar"
    /\ last' = [op |-> "find_similar",
                query_embedding |-> last.query_embedding,
                metadata |-> last.metadata, threshold |-> last.threshold,
                max_results |-> last.max_results,
                results |-> find_similar(last.query_embedding, last.metadata,
                                         last.threshold, last.max_results)]
    /\ UNCHANGED <<elysium, asphodel, tartarus, lethe, ops, tasks>>

\* a caller awaits tier.find_similar(query_embedding, threshold)
TierSimilar ==
    /\ last.op = "call" /\ last.fn = "tier_find_similar"
    /\ last' = [op |-> "tier_find_similar",
                query_embedding |-> last.query_embedding,
                threshold |-> last.threshold,
                results |-> TierFindSimilar(asphodel, last.query_embedding,
                                            last.threshold)]
    /\ UNCHANGED <<elysium, asphodel, tartarus, lethe, ops, tasks>>

SimilarNext == FindSimilar \/ TierSimilar

SimilarSpec == SimilarInit /\ [][SimilarNext]_vars

\* the entry of a _metadata dict for a key
MetaOf(metadata, key) ==
    metadata[CHOOSE i \in DOMAIN metadata : metadata[i].key = key]

\* C28: SimilaritySearch.find_similar returns only keys whose metadata
\* carries an embedding and whose similarity to the query is >= threshold,
\* each once and with that similarity, in non-increasing order of
\* similarity and at most max_results of them; a tier's find_similar
\* returns those keys (for max_results 5) paired with the values the tier
\* holds.
C28_FindSimilar ==
    /\ [][last'.op = "find_similar" =>
            LET R == last'.results
            IN /\ \A i \in DOMAIN R :
                    /\ \E j \in DOMAIN last'.metadata :
                         last'.metadata[j].key = R[i].key
                    /\ HasEmbedding(MetaOf(last'.metadata, R[i].key))
                    /\ R[i].score
                         = cosine_similarity(
                             last'.query_embedding,
                             MetaOf(last'.metadata,
                                    R[i].key).vector_embedding.vec)
                    /\ R[i].score >= last'.threshold
               /\ \A i, j \in DOMAIN R : i < j =>
                    (R[i].score >= R[j].score /\ R[i].key # R[j].key)
               /\ Len(R) <= last'.max_results]_vars
    /\ [][last'.op = "tier_find_similar" =>
            LET R == last'.results
                S == find_similar(last'.query_embedding, asphodel.meta,
                                  last'.threshold, DefaultMaxResults)
            IN /\ Len(R) = Len(S)
               /\ \A i \in DOMAIN R :
                    /\ R[i].key = S[i].key
                    /\ R[i].value = asphodel.data[R[i].key]
                    /\ R[i].value # NoValue]_vars

\* C28 witness: two keys qualified, the one scanned second was the more
\* similar and is returned first, and max_results cut nothing
C28_Witness ==
    /\ last.op = "find_similar" /\ Len(last.results) = 2
    /\ last.results[1].key = last.metadata[2].key
    /\ last.results[1].score > last.results[2].score
    /\ last.results[2].score >= last.threshold

\* ------------------------------------------------------- concurrent callers
\* Several coroutines call one MemoryManager on one event loop.  A coroutine
\* runs until it awaits something that is not ready: the answer of the
\* external store in LetheTier (position "db"), or an asyncio.Lock that is
\* held (position "waiting").  The in-memory tiers' methods await nothing
\* else, so the part of a call between two such points is one step.
MaxCalls == 4                  \* calls made in one behaviour

\* the values and metadata the concurrent callers store
TaskValues == {"bb"}
TaskMetaInputs ==
    {NoMeta, [last_access |-> 1, access_count |-> PromoteCount + 1]}

\* a call in progress or returned: seen is the in-memory tier in which a
\* retrieve found the key, promotes whether that hit takes the promoting
\* branch, partial the answer of the in-memory evicts, waits the tier whose
\* lock the call is suspended on
Waiting(task, tier, holds) ==
    [task EXCEPT !.pc = "waiting", !.waits = tier, !.holds = holds]
Suspended(task) == [task EXCEPT !.pc = "db"]
Done(task, result, rvalue, rtier) ==
    [task EXCEPT !.pc = "done", !.result = result, !.rvalue = rvalue,
                 !.rtier = rtier]
NewCall(op, key, value, metadata, tier) ==
    [IdleTask EXCEPT !.op = op, !.key = key, !.value = value,
                     !.meta = metadata, !.tier = tier]

\* the tier whose lock a call that cannot go on is waiting for, and the
\* locks it took itself on the way
LockedTier(st) == CHOOSE t \in {"elysium", "asphodel", "tartarus"} : st[t].lock
LocksTaken(before, after) ==
    {t \in {"elysium", "asphodel", "tartarus"} :
        ~before[t].lock /\ after[t].lock}

\* the first in-memory tier whose value for the key counts as a hit
FirstHit(st, key) ==
    IF Truthy(TierRetrieve(st.elysium, key)) THEN "elysium"
    ELSE IF Truthy(TierRetrieve(st.asphodel, key)) THEN "asphodel"
    ELSE IF Truthy(TierRetrieve(st.tartarus, key)) THEN "tartarus"
    ELSE "none"

\* whether the hit MemoryManager.retrieve saw takes the promoting branch
Promotes(st, key) ==
    LET seen == FirstHit(st, key) IN
    IF seen = "asphodel"
    THEN /\ get_metadata(st.asphodel, key) # NoMeta
         /\ get_metadata(st.asphodel, key).access_count > PromoteCount
    ELSE IF seen = "tartarus" THEN get_metadata(st.tartarus, key) # NoMeta
    ELSE FALSE

CanCall(t) == tasks[t].pc \in {"idle", "done"} /\ ops < MaxCalls

\* task t awaits MemoryManager.store(key, value, metadata, tier): a store
\* into Cold is suspended on db.store, any other runs to its end or to a
\* lock that is held
TaskStore(t) ==
    /\ CanCall(t)
    /\ \E key \in Keys, value \in TaskValues, metadata \in TaskMetaInputs,
          tier \in TierNames :
        LET call == NewCall("store", key, value, metadata, tier)
            s == MgrStore(Tiers, key, value, metadata, tier, TRUE)
        IN IF tier = "lethe"
           THEN /\ TiersBecome(Tiers)
                /\ tasks' = [tasks EXCEPT ![t] = Suspended(call)]
           ELSE /\ TiersBecome(s.st)
                /\ tasks' = [tasks EXCEPT ![t] =
                     IF s.r = "hang"
                     THEN Waiting(call, LockedTier(s.st), LocksTaken(Tiers, s.st))
                     ELSE Done(call, s.r, NoValue, "none")]
    /\ ops' = ops + 1
    /\ UNCHANGED last

\* task t awaits MemoryManager.retrieve(key): the in-memory tiers are asked
\* without suspension; when none of them has the key the call is suspended
\* on db.retrieve
TaskRetrieve(t) ==
    /\ CanCall(t)
    /\ \E key \in Keys :
        LET seen == FirstHit(Tiers, key)
            call == [NewCall("retrieve", key, NoValue, NoMeta, "none")
                       EXCEPT !.seen = seen,
                              !.promotes = Promotes(Tiers, key)]
            s == MgrRetrieve(Tiers, key, TRUE)
        IN IF seen = "none"
           THEN /\ TiersBecome(Tiers)
                /\ tasks' = [tasks EXCEPT ![t] = Suspended(call)]
           ELSE /\ TiersBecome(s.st)
                /\ tasks' = [tasks EXCEPT ![t] =
                     IF s.result = "hang"
                     THEN Waiting(call, LockedTier(s.st), LocksTaken(Tiers, s.st))
                     ELSE Done(call, "ok", s.rvalue, s.rtier)]
    /\ ops' = ops + 1
    /\ UNCHANGED last

\* the evicts of MemoryManager.evict that precede lethe.evict: the call as
\* it stands when the external store has not answered yet
EvictInMemory(st, key) == MgrEvict(st, key, FALSE)

\* task t awaits MemoryManager.evict(key): after the in-memory evicts the
\* call is suspended on db.delete
TaskEvict(t) ==
    /\ CanCall(t)
    /\ \E key \in Keys :
        LET call == NewCall("evict", key, NoValue, NoMeta, "none")
            s == EvictInMemory(Tiers, key)
        IN /\ TiersBecome(s.st)
           /\ tasks' = [tasks EXCEPT ![t] =
                IF s.r = "hang"
                THEN Waiting(call, LockedTier(s.st), LocksTaken(Tiers, s.st))
                ELSE Suspended([call EXCEPT !.partial = s.r])]
    /\ ops' = ops + 1
    /\ UNCHANGED last

\* the external store answers (dbOk) or fails, and the call of task t goes
\* on to its end
TaskDbAnswer(t) ==
    /\ tasks[t].pc = "db"
    /\ \E dbOk \in BOOLEAN :
        LET call == tasks[t]
            stored == LetheStore(lethe, call.key, call.value, call.meta, dbOk)
            value == LetheRetrieve(lethe, call.key, dbOk)
            hit == HitLethe(Tiers, call.key, value)
            evicted == LetheEvict(lethe, call.key, dbOk)
        IN IF call.op = "store"
           THEN /\ TiersBecome([Tiers EXCEPT !.lethe = stored.t])
                /\ tasks' = [tasks EXCEPT ![t] =
                                Done(call, stored.r, NoValue, "none")]
           ELSE IF call.op = "retrieve"
           THEN IF Truthy(value)
                THEN /\ TiersBecome(hit.st)
                     /\ tasks' = [tasks EXCEPT ![t] =
                                     Done(call, "ok", value, "lethe")]
                ELSE /\ TiersBecome(Tiers)
                     /\ tasks' = [tasks EXCEPT ![t] =
                                     Done(call, "ok", NoValue, "none")]
           ELSE /\ TiersBecome([Tiers EXCEPT !.lethe = evicted.t])
                /\ tasks' = [tasks EXCEPT ![t] =
                     Done(call, AnyTrue({call.partial, evicted.r}),
                          NoValue, "none")]
    /\ UNCHANGED <<last, ops>>

TaskNext ==
    \E t \in Tasks :
        TaskStore(t) \/ TaskRetrieve(t) \/ TaskEvict(t) \/ TaskDbAnswer(t)

TaskSpec == Init /\ [][TaskNext]_vars

\* the event loop resumes a coroutine whose awaited call has an answer
TaskFairSpec == TaskSpec /\ \A t \in Tasks : WF_vars(TaskDbAnswer(t))

\* C24: every acquisition of a tier's lock by store or evict is followed by
\* its release, so a lock that is held is free again later, and every call
\* suspended on a tier lock acquires it and returns.
C24_LocksReleased ==
    /\ \A tier \in {"elysium", "asphodel", "tartarus"} :
         Tiers[tier].lock ~> ~Tiers[tier].lock
    /\ \A t \in Tasks : (tasks[t].pc = "waiting") ~> (tasks[t].pc = "done")

\* the tier MemoryManager.retrieve promotes a hit of the source tier into
TargetOf(source) == IF source = "asphodel" THEN "elysium" ELSE "asphodel"

\* both coroutines are in retrieve(key) at once and each has seen the hit
\* in the source tier and taken the promoting branch
BothObserved(key, source) ==
    \A t \in Tasks :
        /\ tasks[t].pc = "waiting"
        /\ tasks[t].op = "retrieve" /\ tasks[t].key = key
        /\ tasks[t].seen = source /\ tasks[t].promotes

\* both calls have returned the value, the target tier holds it under the
\* key and the source tier no longer holds the key
BothPromoted(key, source) ==
    /\ \A t \in Tasks :
        /\ tasks[t].pc = "done" /\ tasks[t].result = "ok"
        /\ tasks[t].rtier = source
        /\ tasks[t].rvalue = Tiers[TargetOf(source)].data[key]
    /\ Truthy(Tiers[TargetOf(source)].data[key])
    /\ Tiers[source].data[key] = NoValue

\* C23: when two concurrent retrieve calls for one key both observe the hit
\* in the source tier (Warm counted past the threshold, or Archive), both
\* return the value, and once both have completed the target tier holds the
\* key with that value and the source tier does not hold it.
C23_ConcurrentPromotion ==
    \A key \in Keys : \A source \in {"asphodel", "tartarus"} :
        BothObserved(key, source) ~> BothPromoted(key, source)

\* ------------------------------------------------- the Cold tier of olympus
\* LetheTier of olympus/hades/src/memory_management/memory_tier.py keeps
\* _data itself and writes entries that carry metadata through to the
\* external store.  The class defines store, retrieve and find_similar but
\* no evict, so it is used through a subclass that supplies one; store and
\* retrieve are called by two coroutines on one event loop.

\* the metadata stored with: none, without and with one relation triple
ColdMetaInputs ==
    {NoMeta,
     [last_access |-> 1, access_count |-> 1, relation_triples |-> 0],
     [last_access |-> 1, access_count |-> 1, relation_triples |-> 1]}

\* the awaited calls of LetheTier.store, in order: db.store_memory, then
\* for each relation triple the find_similar_memories and store_memory of
\* _ensure_node_exists for subject and object, and db.create_relationship
ColdStages ==
    {"store_memory", "find_subject", "create_subject", "find_object",
     "create_object", "create_relationship"}

\* the stage after a call of _ensure_node_exists has returned a key
AfterNode(stage) ==
    IF stage \in {"find_subject", "create_subject"} THEN "find_object"
    ELSE "create_relationship"

\* LetheTier.store from "async with self._lock" on, the lock being free:
\* _data[key] is written; without metadata the call returns True at once,
\* with metadata it awaits db.store_memory inside the locked block
ColdEnter(t, call) ==
    /\ lethe' = [lethe EXCEPT !.data[call.key] = call.value,
                              !.lock = call.meta # NoMeta]
    /\ tasks' = [tasks EXCEPT ![t] =
         IF call.meta = NoMeta THEN Done(call, "true", NoValue, "none")
         ELSE [call EXCEPT !.pc = "db", !.stage = "store_memory",
                           !.holds = {"lethe"}, !.waits = "none",
                           !.held = lethe.data[call.key]]]

\* task t awaits LetheTier.store(key, value, metadata): it enters the
\* locked block, or waits for the lock another store holds
ColdStore(t) ==
    /\ CanCall(t)
    /\ \E key \in Keys, value \in TaskValues, metadata \in ColdMetaInputs :
        LET call == NewCall("store", key, value, metadata, "lethe")
        IN IF lethe.lock
           THEN /\ tasks' = [tasks EXCEPT ![t] = Waiting(call, "lethe", {})]
                /\ UNCHANGED lethe
           ELSE ColdEnter(t, call)
    /\ ops' = ops + 1
    /\ UNCHANGED <<elysium, asphodel, tartarus, last>>

\* the lock has been released and task t, waiting for it, goes on
ColdAcquire(t) ==
    /\ tasks[t].pc = "waiting" /\ tasks[t].waits = "lethe"
    /\ ~lethe.lock
    /\ ColdEnter(t, tasks[t])
    /\ UNCHANGED <<elysium, asphodel, tartarus, last, ops>>

\* the store leaves the locked block and returns.  It returns False: an
\* exception of the external store is caught, and when every call went
\* well "metadata.db_key = memory_key" raises, ContextMetadata having no
\* such field, before _metadata[key] is written.  stage keeps which of
\* the two it was.
ColdLeave(t, dbOk) ==
    /\ lethe' = [lethe EXCEPT !.lock = FALSE]
    /\ tasks' = [tasks EXCEPT ![t] =
         [Done(tasks[t], "false", NoValue, "none")
            EXCEPT !.holds = {},
                   !.stage = IF dbOk THEN "db_key" ELSE "db_failed"]]

\* the external store answers the call task t is suspended on (dbOk), or
\* fails it; existing tells whether find_similar_memories found a node.
\* A failure inside _ensure_node_exists is caught there and the store goes
\* on with the next call.
ColdDbAnswer(t) ==
    /\ tasks[t].pc = "db" /\ tasks[t].stage \in ColdStages
    /\ \E dbOk \in BOOLEAN, existing \in BOOLEAN :
        LET stage == tasks[t].stage
            next == IF stage = "store_memory"
                    THEN IF dbOk /\ tasks[t].meta.relation_triples > 0
                         THEN "find_subject" ELSE "return"
                    ELSE IF stage \in {"find_subject", "find_object"}
                    THEN IF dbOk /\ ~existing
                         THEN IF stage = "find_subject"
                              THEN "create_subject" ELSE "create_object"
                         ELSE AfterNode(stage)
                    ELSE IF stage \in {"create_subject", "create_object"}
                    THEN AfterNode(stage)
                    ELSE "return"
        IN IF next = "return" THEN ColdLeave(t, dbOk)
           ELSE /\ tasks' = [tasks EXCEPT ![t].stage = next]
                /\ UNCHANGED lethe
    /\ UNCHANGED <<elysium, asphodel, tartarus, last, ops>>

\* task t awaits LetheTier.retrieve(key): _data.get(key) without the lock.
\* The related context is asked of the external store only for a key in
\* _metadata, and store never gets as far as writing _metadata.
ColdRetrieve(t) ==
    /\ CanCall(t)
    /\ \E key \in Keys :
        tasks' = [tasks EXCEPT ![t] =
            Done(NewCall("retrieve", key, NoValue, NoMeta, "lethe"), "ok",
                 lethe.data[key], "lethe")]
    /\ ops' = ops + 1
    /\ UNCHANGED <<elysium, asphodel, tartarus, lethe, last>>

ColdInit ==
    /\ elysium = MemoryTier(MaxCapacity)
    /\ asphodel = NewAsphodel(10 * MaxCapacity, MaxWindow)
    /\ tartarus = MemoryTier(Infinity)
    /\ lethe = MemoryTier(Infinity)
    /\ last = Call("init", "k1", "none", NoValue, NoMeta, TRUE,
                   "none", "none", NoValue, "none", "none")
    /\ ops = 0
    /\ tasks = NoTasks

ColdNext ==
    \E t \in Tasks :
        ColdStore(t) \/ ColdAcquire(t) \/ ColdDbAnswer(t) \/ ColdRetrieve(t)

ColdSpec == ColdInit /\ [][ColdNext]_vars

\* C25: while a Cold-tier operation is suspended on a call to the external
\* store, the calling task holds no tier lock, so no other call is waiting
\* for a lock the suspended task holds.
C25_NoLockAcrossStore ==
    \A t \in Tasks :
        (tasks[t].pc = "db")
            => /\ tasks[t].holds = {}
               /\ \A u \in Tasks :
                    (tasks[u].pc = "waiting")
                        => (tasks[u].waits \notin tasks[t].holds)

\* ------------------------------------------------------------- statistics
\* MemoryManager._update_stats computes memory_utilization by dividing by
\* settings.ELYSIUM_MAX_SIZE + settings.ASPHODEL_MAX_SIZE, the sizes the
\* tiers were constructed with: with both at 0 it raises ZeroDivisionError.
update_stats(st) ==
    IF st.elysium.max_size + st.asphodel.max_size = 0 THEN "raise" ELSE "ok"

\* MemoryManager.store with its statistics update: an unknown tier name
\* returns before the update; the update is awaited inside the try block,
\* so its exception is answered with False after the tier has stored
StoreAndStats(st, key, value, metadata, tier, dbOk) ==
    LET s == MgrStore(st, key, value, metadata, tier, dbOk)
    IN IF tier \notin TierNames \/ s.r = "hang" THEN s
       ELSE IF update_stats(s.st) = "raise" THEN [s EXCEPT !.r = "false"]
       ELSE s

\* MemoryManager.evict with its statistics update, which is awaited outside
\* any handler when a tier evicted the key: its exception leaves evict
EvictAndStats(st, key, dbOk) ==
    LET s == MgrEvict(st, key, dbOk)
    IN IF s.r = "true" /\ update_stats(s.st) = "raise"
       THEN [s EXCEPT !.r = "raise"]
       ELSE s

\* a manager constructed with any of the configured sizes
StatsInit ==
    /\ \E m \in {0, MaxCapacity} : elysium = MemoryTier(m)
    /\ \E m \in {0, 10 * MaxCapacity} : asphodel = NewAsphodel(m, MaxWindow)
    /\ tartarus = MemoryTier(Infinity)
    /\ lethe = NewLethe
    /\ last = Call("init", "k1", "none", NoValue, NoMeta, TRUE,
                   "none", "none", NoValue, "none", "none")
    /\ ops = 0
    /\ tasks = NoTasks

\* a caller awaits MemoryManager.store(key, value, metadata, tier)
StatsStore ==
    /\ ops < MaxOps
    /\ \E key \in Keys, value \in Values, metadata \in MetaInputs \cup {NoMeta},
          tier \in TierNames \cup {"none"}, dbOk \in BOOLEAN :
        /\ (tier # "lethe") => dbOk
        /\ \E s \in {StoreAndStats(Tiers, key, value, metadata, tier, dbOk)} :
            /\ Commit(s.st)
            /\ last' = Call("store", key, tier, value, metadata, dbOk,
                            s.r, s.tr, NoValue, "none", "none")

\* a caller awaits MemoryManager.evict(key)
StatsEvict ==
    /\ ops < MaxOps
    /\ \E key \in Keys, dbOk \in BOOLEAN :
        \E s \in {EvictAndStats(Tiers, key, dbOk)} :
            /\ Commit(s.st)
            /\ last' = Call("evict", key, "none", NoValue, NoMeta, dbOk,
                            s.r, "none", NoValue, "none", "none")

StatsNext == StatsStore \/ StatsEvict \/ Retrieve

StatsSpec == StatsInit /\ [][StatsNext]_vars

\* C31: the statistics update has no impact on what store and evict return
\* or on the tiers: store returns true exactly when the named tier's store
\* returned true, and evict returns what the tiers' evicts add up to and
\* leaves the tiers as they do, whether the update succeeds or fails.
C31_StatsNoImpact ==
    [][/\ (last'.op = "store" /\ last'.result # "hang")
            => ((last'.result = "true") <=> (last'.tr = "true"))
       /\ (last'.op = "evict")
            => /\ last'.result = MgrEvict(Tiers, last'.key, last'.dbOk).r
               /\ Tiers' = MgrEvict(Tiers, last'.key, last'.dbOk).st]_vars

\* the total size of the entries a tier holds
RECURSIVE SizeOver(_, _)
SizeOver(t, keys) ==
    IF keys = {} THEN 0
    ELSE LET k == CHOOSE x \in keys : TRUE
         IN SizeOf(t.data[k]) + SizeOver(t, keys \ {k})
HeldSize(t) == SizeOver(t, DataKeys(t))

\* C32: in each in-memory tier current_size equals the total size of the
\* entries the tier holds, after any sequence of store and evict calls.
C32_SizeTracksContents ==
    /\ elysium.current_size = HeldSize(elysium)
    /\ asphodel.current_size = HeldSize(asphodel)
    /\ tartarus.current_size = HeldSize(tartarus)

\* ------------------------------------------------ the steps of a promotion
\* MemoryManager.retrieve on a hit it promotes, step by step: first
\* "await self.store(key, value, metadata, target)", then
\* "await self.<source>.evict(key)".  Between the two the call is at
\* position "promoting"; no other coroutine runs in between, the step is
\* split to look at the state the call passes through.

\* the store of the promotion evicting from the source tier instead
PromotionStore_EvictFirst(st, key, source) ==
    LET e == TierEvict(st[source], key)
    IN [st |-> [st EXCEPT ![source] = e.t], r |-> e.r, tr |-> e.r]

\* the store of the promotion: a hit in Warm is stored into Hot with its
\* metadata, a hit in Archive has its access counted in place and is
\* stored into Warm
PromotionStore(st, key, source) ==
    LET metadata == get_metadata(st[source], key)
        counted == [metadata EXCEPT !.access_count = @ + 1]
    IN IF source = "asphodel"
       THEN MgrStore(st, key, TierRetrieve(st.asphodel, key), metadata,
                     "elysium", TRUE)
       ELSE MgrStore([st EXCEPT !.tartarus.meta[key] = counted], key,
                     TierRetrieve(st.tartarus, key), counted, "asphodel",
                     TRUE)

\* the caller awaits MemoryManager.retrieve(key): a call that promotes goes
\* as far as the store into the target tier has returned, any other call
\* runs to its end
PromoteBegin ==
    /\ ops < MaxOps
    /\ tasks["t1"].pc \in {"idle", "done"}
    /\ \E key \in Keys, dbOk \in BOOLEAN :
        LET seen == FirstHit(Tiers, key)
            call == [NewCall("retrieve", key, TierRetrieve(Tiers[seen], key),
                             NoMeta, "none")
                       EXCEPT !.seen = seen, !.promotes = TRUE]
        IN IF Promotes(Tiers, key)
           THEN /\ dbOk
                /\ \E s \in {PromotionStore(Tiers, key, seen)} :
                    /\ TiersBecome(s.st)
                    /\ tasks' = [tasks EXCEPT !["t1"] =
                         IF s.r = "hang"
                         THEN Waiting(call, LockedTier(s.st),
                                      LocksTaken(Tiers, s.st))
                         ELSE [call EXCEPT !.pc = "promoting",
                                           !.stage = "stored",
                                           !.partial = s.r]]
           ELSE \E s \in {MgrRetrieve(Tiers, key, dbOk)} :
                    /\ TiersBecome(s.st)
                    /\ tasks' = [tasks EXCEPT !["t1"] =
                         Done([NewCall("retrieve", key, NoValue, NoMeta,
                                       "none") EXCEPT !.seen = seen],
                              "ok", s.rvalue, s.rtier)]
    /\ ops' = ops + 1
    /\ UNCHANGED last

\* the promotion goes on with the evict from the source tier and returns
PromoteEvict ==
    /\ tasks["t1"].pc = "promoting"
    /\ \E e \in {TierEvict(Tiers[tasks["t1"].seen], tasks["t1"].key)} :
        /\ TiersBecome([Tiers EXCEPT ![tasks["t1"].seen] = e.t])
        /\ tasks' = [tasks EXCEPT !["t1"] =
             IF e.r = "hang"
             THEN Waiting(@, tasks["t1"].seen, {})
             ELSE Done(@, "ok", tasks["t1"].value, tasks["t1"].seen)]
    /\ UNCHANGED <<last, ops>>

\* store and evict calls the caller makes between its retrieves
PromoteSetup ==
    /\ tasks["t1"].pc \in {"idle", "done"}
    /\ (Store \/ Evict)

PromoteNext == PromoteBegin \/ PromoteEvict \/ PromoteSetup

PromoteSpec == Init /\ [][PromoteNext]_vars

\* the tier holds the key
Holds(t, key) == t.data[key] # NoValue

\* C33: in every promotion of retrieve the store into the target tier has
\* completed before the evict from the source tier starts: in every
\* intermediate state the source tier still holds the key, when the target
\* store succeeded the target tier holds it too, and after the evict the
\* target tier holds it.
C33_StoreBeforeEvict ==
    /\ [](tasks["t1"].pc = "promoting"
            => /\ Holds(Tiers[tasks["t1"].seen], tasks["t1"].key)
               /\ (tasks["t1"].partial = "true")
                    => Holds(Tiers[TargetOf(tasks["t1"].seen)],
                             tasks["t1"].key))
    /\ [][(tasks["t1"].pc = "promoting" /\ tasks["t1"].partial = "true")
            => Holds(Tiers'[TargetOf(tasks["t1"].seen)], tasks["t1"].key)]_vars

\* C33 witness: a promotion whose target store succeeded is between its
\* store and its evict
C33_Witness ==
    /\ tasks["t1"].pc = "promoting" /\ tasks["t1"].partial = "true"
    /\ Holds(Tiers[TargetOf(tasks["t1"].seen)], tasks["t1"].key)

\* the values the in-memory tiers hold under the key
ResidentValues(key) ==
    {Tiers[tier].data[key] : tier \in {"elysium", "asphodel", "tartarus"}}
        \ {NoValue}

\* C34: a retrieve of a key that an in-memory tier holds throughout the
\* call returns a value the key is held with and never reports not-found.
C34_ResidentIsFound ==
    [][(IsRetrieve /\ ResidentValues(last'.key) # {})
        => /\ last'.result = "ok"
           /\ last'.rtier # "none"
           /\ last'.rvalue \in ResidentValues(last'.key)]_vars

\* the key is held by at least one tier, the external store included
HeldSomewhere(st, key) ==
    \/ \E tier \in {"elysium", "asphodel", "tartarus"} : Holds(st[tier], key)
    \/ st.lethe.db[key] # NoValue

\* C35: a retrieve never destroys the entry it hits: after a retrieve that
\* returned a value the key is still held by at least one tier; when the
\* store into Warm failed during an Archive-to-Warm promotion the entry is
\* still in Archive.
C35_RetrieveKeepsEntry ==
    [][(IsRetrieve /\ last'.result = "ok" /\ last'.rvalue # NoValue)
        => /\ HeldSomewhere(Tiers', last'.key)
           /\ (last'.rtier = "tartarus" /\ last'.inner \in {"false", "raise"})
                => Holds(tartarus', last'.key)]_vars

\* the key is held by Warm with a count that does not reach past the
\* promotion threshold, or without metadata
WarmBelowThreshold(st, k) ==
    /\ Truthy(st.asphodel.data[k])
    /\ ~Truthy(st.elysium.data[k])
    /\ \/ st.asphodel.meta[k] = NoMeta
       \/ st.asphodel.meta[k].access_count <= PromoteCount

\* C36: a retrieve that hits Hot or Warm changes no access_count or
\* last_access: the entry it hit carries the metadata it had, in the tier
\* it is in afterwards, and the other entries of Hot and Warm are as they
\* were; an entry held by Warm with access_count <= 5 is answered from
\* Warm and stays there, not promoted to Hot.
C36_HitLeavesCount ==
    [][(IsRetrieve /\ last'.result = "ok"
          /\ last'.rtier \in {"elysium", "asphodel"})
        => /\ \A k \in Keys \ {last'.key} :
                /\ elysium'.meta[k] = elysium.meta[k]
                /\ asphodel'.meta[k] = asphodel.meta[k]
           /\ (last'.rtier = "elysium")
                => (elysium' = elysium /\ asphodel' = asphodel)
           /\ (last'.rtier = "asphodel" /\ Holds(asphodel', last'.key))
                => asphodel'.meta[last'.key] = asphodel.meta[last'.key]
           /\ (last'.rtier = "asphodel" /\ last'.inner = "true")
                => elysium'.meta[last'.key] = asphodel.meta[last'.key]
           /\ WarmBelowThreshold(Tiers, last'.key)
                => /\ last'.rtier = "asphodel"
                   /\ asphodel' = asphodel /\ elysium' = elysium]_vars

\* C36 witness: a retrieve answered from Warm an entry counted up to the
\* threshold, and Warm holds it still
C36_Witness ==
    /\ last.op = "retrieve" /\ last.rtier = "asphodel"
    /\ asphodel.meta[last.key] # NoMeta
    /\ asphodel.meta[last.key].access_count = PromoteCount
    /\ Holds(asphodel, last.key)

\* C37: a Cold store that returns false because the call to the external
\* store failed leaves the tier's in-memory maps as they were before the
\* call: Cold holds under the key what it held before.
C37_FailedStoreLeavesMaps ==
    [][\A t \in Tasks :
        (tasks[t].pc = "db" /\ tasks'[t].pc = "done"
           /\ tasks'[t].result = "false" /\ tasks'[t].stage = "db_failed")
        => /\ lethe'.data[tasks[t].key] = tasks[t].held
           /\ lethe'.meta = lethe.meta]_vars

\* C38: a store of a key that Warm already holds replaces the key's value
\* and evicts no key, also when Warm holds window_size items: the keys Warm
\* holds are the same before and after the call.
C38_WarmOverwrite ==
    [][(IsStoreInto("asphodel") /\ Holds(asphodel, last'.key))
        => /\ last'.tr = "true"
           /\ asphodel'.data[last'.key] = last'.value
           /\ DataKeys(asphodel') = DataKeys(asphodel)]_vars

\* the positions of a score list at or above a score, and the j-th of them
PositionsAtLeast(scores, score) ==
    {i \in DOMAIN scores : scores[i] >= score}
NthOf(positions, j) ==
    CHOOSE i \in positions : Cardinality({x \in positions : x < i}) = j - 1

\* C39: for n > ratio tokens compress returns a non-empty subsequence of the
\* input, in the input's order, made of exactly the positions whose score
\* is at least the score at 0-based rank n // ratio of the scores sorted
\* descending, with the importance list of the same length holding the
\* score of each kept position.
C39_CompressSelects ==
    [][(IsCompress /\ Len(last'.tokens) > last'.ratio)
       => LET n == Len(last'.tokens)
              scores == TokenScores(last'.tokens)
              kept == PositionsAtLeast(scores,
                                       SortedDescAt(scores, n \div last'.ratio))
          IN /\ last'.result.outcome = "ok"
             /\ last'.result.tokens # <<>>
             /\ Len(last'.result.tokens) = Cardinality(kept)
             /\ Len(last'.result.scores) = Cardinality(kept)
             /\ \A j \in 1..Cardinality(kept) :
                  /\ last'.result.tokens[j] = last'.tokens[NthOf(kept, j)]
                  /\ last'.result.scores[j] = scores[NthOf(kept, j)]]_vars
====
